---- MODULE Spec2Model ----
(***************************************************************************)
(* A model of findFrankNumber (JarneRenders/Frank-Number): the digraph     *)
(* substrate, the strong-connectivity test, the deletable-arc engine, the  *)
(* exact orientation search with its two back ends, the oddness-2          *)
(* heuristic and the driver loop.                                          *)
(***************************************************************************)
EXTENDS Integers, Sequences, FiniteSets, TLC

VARIABLES
    pc,                 \* position of the modelled process
    numberOfVertices,   \* int numberOfVertices
    adjacencyList,      \* bitset adjacencyList[numberOfVertices]
    edgeNumbering,      \* int edgeNumbering[n][n]
    orientation,        \* struct diGraph orientation
    lastOp,             \* name of the last digraph macro applied
    callsValid,         \* every addArc so far added an absent arc, every removeArc removed a present one
    stronglyConnected,  \* last result of isStronglyConnected
    deletableEdges,     \* last result of getDeletableEdges
    reverseDeletableEdges, \* getDeletableEdges of the reversed digraph
    options,            \* struct options
    numberOf,           \* struct counters
    frames,             \* activation records of generateAllOrientations, innermost last
    returned,           \* value a call of generateAllOrientations has just returned, NoValue if none
    bitsetsOfDeletableEdges, \* Array bitsetsOfDeletableEdges
    frankNumber,        \* int frankNumber of main
    leafOrientation,    \* the orientation as the last examined leaf saw it
    compFrames,         \* activation records of canCompleteCompOrientation, innermost last
    compOrientation,    \* the orientation hasComplementaryOrientation left behind
    hasCompOrientation, \* last result of hasComplementaryOrientation
    stdin,              \* lines not yet read
    input,              \* the standard input as it was given, line by line
    graphString,        \* char *graphString
    totalGraphs,        \* unsigned long long totalGraphs
    counter,            \* unsigned long long counter
    skippedGraphs,      \* unsigned long long skippedGraphs
    passedGraphs,       \* unsigned long long passedGraphs
    stdout,             \* what was written to the standard output
    strongDeletableSets, \* deletable sets of all strong orientations of the graph, by definition
    matchFrames,        \* activation records of hasSufficientCondition, innermost last
    matchReturned,      \* value a call of hasSufficientCondition has just returned, NoValue if none
    heuristic,          \* F of main and the locals of the call that holds a perfect matching
    verified,           \* the locals of verifyOddnessHeuristicOrientations
    exitStatus,         \* the argument of exit, NoValue while the process runs
    previousRun,        \* frankNumber, graph and output of the run before this one
    offered             \* the sets handed to getIntermediateFrankNumber since initArray

digraphVars == <<numberOfVertices, adjacencyList, edgeNumbering, orientation,
                 lastOp, callsValid, stronglyConnected, deletableEdges,
                 reverseDeletableEdges>>

searchVars == <<options, numberOf, frames, returned, bitsetsOfDeletableEdges,
                frankNumber, leafOrientation, compFrames, compOrientation,
                hasCompOrientation>>

driverVars == <<stdin, input, graphString, totalGraphs, counter, skippedGraphs,
                passedGraphs, stdout>>

heuristicVars == <<matchFrames, matchReturned, heuristic, verified, exitStatus,
                   previousRun>>

vars == <<pc, digraphVars, searchVars, driverVars, strongDeletableSets,
          heuristicVars, offered>>

-----------------------------------------------------------------------------
(* Bounds of the model *)

\* largest vertex count of the digraphs built arc by arc
MaxV == 4
\* |numberOfArcs| is kept below this in the addArc/removeArc specification
MaxArcCount == 4
\* the pool is offered at most MaxOffers sets
MaxOffers == 5

-----------------------------------------------------------------------------
(* Vertex bitsets (bitset.h): a bitset is modelled by the set of its elements *)

EMPTY == {}

singleton(el) == IF el < 0 THEN {} ELSE {el}

\* next(set, current): the smallest element greater than current, or -1
next(set, current) ==
    LET above == {e \in set : e > current}
    IN  IF above = {} THEN -1
        ELSE CHOOSE e \in above : \A f \in above : e <= f

complement(set, n) == (0 .. (n - 1)) \ set

size(set) == Cardinality(set)

-----------------------------------------------------------------------------
(* Digraphs *)

emptyGraph(n) ==
    [numberOfVertices     |-> n,
     adjacencyList        |-> [i \in 0 .. (n - 1) |-> EMPTY],
     reverseAdjacencyList |-> [i \in 0 .. (n - 1) |-> EMPTY],
     numberOfArcs         |-> 0]

addArcNoReverse(g, i, j) ==
    [g EXCEPT !.adjacencyList[i] = @ \cup {j},
              !.numberOfArcs = @ + 1]

addArc(g, i, j) ==
    [g EXCEPT !.adjacencyList[i] = @ \cup {j},
              !.numberOfArcs = @ + 1,
              !.reverseAdjacencyList[j] = @ \cup {i}]

removeArc(g, i, j) ==
    [g EXCEPT !.adjacencyList[i] = @ \ {j},
              !.numberOfArcs = @ - 1,
              !.reverseAdjacencyList[j] = @ \ {i}]

-----------------------------------------------------------------------------
(* Strong connectivity check *)

\* A recursive function of the program is run as a machine on its call stack:
\* a frame holds the arguments and the loop cursor of one call that has not
\* returned. Run does 2^k steps of it, Loop runs it until the stack is empty.
RunLog == 4

\* lines 206-209: the call visit(g, vertexToVisit, ...) up to its forEach;
\* st = [frames, unvisitedVertices, L, i], lengthOfL is Len(L)
visit(vertexToVisit, st) ==
    IF vertexToVisit \notin st.unvisitedVertices THEN st
    ELSE [st EXCEPT !.unvisitedVertices = @ \ {vertexToVisit},
                    !.frames = Append(@, [vertexToVisit |-> vertexToVisit,
                                          outNeighbour  |-> -1])]

\* one step: the for loop of isStronglyConnected calls visit(g, i), or the
\* innermost call goes to its next outNeighbour, or stores its vertex in L
visitStep(g, st) ==
    IF st.frames = <<>>
    THEN visit(st.i, [st EXCEPT !.i = @ + 1])
    ELSE LET f == st.frames[Len(st.frames)]
             outNeighbour == next(g.adjacencyList[f.vertexToVisit], f.outNeighbour)
         IN  IF outNeighbour = -1
             THEN [st EXCEPT !.L = Append(@, f.vertexToVisit),
                             !.frames = SubSeq(@, 1, Len(@) - 1)]
             ELSE visit(outNeighbour,
                        [st EXCEPT !.frames[Len(st.frames)].outNeighbour = outNeighbour])

RECURSIVE visitRun(_, _, _), visitLoop(_, _)

visitRun(g, st, k) ==
    IF st.frames = <<>> /\ st.i >= g.numberOfVertices THEN st
    ELSE IF k = 0 THEN visitStep(g, st)
    ELSE visitRun(g, visitRun(g, st, k - 1), k - 1)

visitLoop(g, st) ==
    IF st.frames = <<>> /\ st.i >= g.numberOfVertices THEN st
    ELSE visitLoop(g, visitRun(g, st, RunLog))

\* lines 218-221: the call assign(g, vertex, ...) up to its forEach;
\* st = [frames, assignedVertices]
assign(vertex, st) ==
    IF vertex \in st.assignedVertices THEN st
    ELSE [st EXCEPT !.assignedVertices = @ \cup {vertex},
                    !.frames = Append(@, [vertex |-> vertex, inNeighbour |-> -1])]

\* one step of the innermost call of assign over the lists inNeighbours
assignStep(inNeighbours, st) ==
    LET f == st.frames[Len(st.frames)]
        inNeighbour == next(inNeighbours[f.vertex], f.inNeighbour)
    IN  IF inNeighbour = -1
        THEN [st EXCEPT !.frames = SubSeq(@, 1, Len(@) - 1)]
        ELSE assign(inNeighbour,
                    [st EXCEPT !.frames[Len(st.frames)].inNeighbour = inNeighbour])

RECURSIVE assignRun(_, _, _), assignLoop(_, _)

assignRun(inNeighbours, st, k) ==
    IF st.frames = <<>> THEN st
    ELSE IF k = 0 THEN assignStep(inNeighbours, st)
    ELSE assignRun(inNeighbours, assignRun(inNeighbours, st, k - 1), k - 1)

assignLoop(inNeighbours, st) ==
    IF st.frames = <<>> THEN st
    ELSE assignLoop(inNeighbours, assignRun(inNeighbours, st, RunLog))

\* L after the for loop of isStronglyConnected
visitAll(g) ==
    visitLoop(g, [frames |-> <<>>, i |-> 0, L |-> <<>>,
                  unvisitedVertices |-> complement(EMPTY, g.numberOfVertices)]).L

\* a variant of isStronglyConnected whose second pass follows the arcs forward
isStronglyConnectedForward(g) ==
    LET L == visitAll(g)
    IN  size(assignLoop(g.adjacencyList,
                 assign(L[Len(L)], [frames |-> <<>>, assignedVertices |-> EMPTY])
             ).assignedVertices) = g.numberOfVertices

isStronglyConnected(g) ==
    LET L == visitAll(g)
    IN  size(assignLoop(g.reverseAdjacencyList,
                 assign(L[Len(L)], [frames |-> <<>>, assignedVertices |-> EMPTY])
             ).assignedVertices) = g.numberOfVertices

-----------------------------------------------------------------------------
(* Deletable edges *)

\* the pairs (i, nbr), i < nbr, in the order numberEdges scans them
EdgesBefore(adj, i, nbr) ==
    {e \in (DOMAIN adj) \X (DOMAIN adj) :
        /\ e[1] < e[2]
        /\ e[2] \in adj[e[1]]
        /\ (e[1] < i \/ (e[1] = i /\ e[2] < nbr))}

\* edgeIndices[i][nbr] = edgeIndices[nbr][i] = counter; entries of non-edges
\* are never read and are given as -1
numberEdges(adj, n) ==
    [i \in 0 .. (n - 1) |-> [j \in 0 .. (n - 1) |->
        IF j \in adj[i] /\ i \in adj[j] /\ i # j
        THEN IF i < j THEN Cardinality(EdgesBefore(adj, i, j))
                      ELSE Cardinality(EdgesBefore(adj, j, i))
        ELSE -1]]

\* lines 263-266: the call containsDirectedPathBetween(orientation,
\* unvisitedVertices, i, end) up to its forEach; st = [frames, found], a frame
\* keeps the call's own copy of unvisitedVertices. A call that returns true
\* makes every call below it return true.
enterDirectedPath(g, unvisitedVertices, i, end, st) ==
    IF end \in g.adjacencyList[i]
    THEN [frames |-> <<>>, found |-> TRUE]
    ELSE [st EXCEPT !.frames = Append(@, [i |-> i, element |-> -1,
                                          unvisitedVertices |-> unvisitedVertices \ {i}])]

\* lines 267-274: the innermost call goes to the next element of
\* intersection(adjacencyList[i], unvisitedVertices), or returns false
directedPathStep(g, end, st) ==
    LET f == st.frames[Len(st.frames)]
        element == next(g.adjacencyList[f.i] \cap f.unvisitedVertices, f.element)
    IN  IF element = -1
        THEN [st EXCEPT !.frames = SubSeq(@, 1, Len(@) - 1)]
        ELSE enterDirectedPath(g, f.unvisitedVertices, element, end,
                 [st EXCEPT !.frames[Len(st.frames)].element = element])

RECURSIVE directedPathRun(_, _, _, _), directedPathLoop(_, _, _)

directedPathRun(g, end, st, k) ==
    IF st.frames = <<>> THEN st
    ELSE IF k = 0 THEN directedPathStep(g, end, st)
    ELSE directedPathRun(g, end, directedPathRun(g, end, st, k - 1), k - 1)

directedPathLoop(g, end, st) ==
    IF st.frames = <<>> THEN st
    ELSE directedPathLoop(g, end, directedPathRun(g, end, st, RunLog))

containsDirectedPathBetween(g, unvisitedVertices, i, end) ==
    directedPathLoop(g, end,
        enterDirectedPath(g, unvisitedVertices, i, end,
                          [frames |-> <<>>, found |-> FALSE])).found

\* a variant of deletableArc that forgets to put the removed arc back
deletableArcNoRestore(r, n, en, i, nbr) ==
    LET removed == removeArc(r.orientation, i, nbr)
    IN  [i |-> i, nbr |-> nbr,
         deletableEdges |->
             IF containsDirectedPathBetween(removed, complement(EMPTY, n), i, nbr)
             THEN r.deletableEdges \cup {en[i][nbr]}
             ELSE r.deletableEdges,
         orientation |-> removed]

\* lines 285-290, the body of the forEach for the arc i -> nbr;
\* r = [i, nbr, deletableEdges, orientation]
deletableArc(r, n, en, i, nbr) ==
    LET removed == removeArc(r.orientation, i, nbr)
    IN  [i |-> i, nbr |-> nbr,
         deletableEdges |->
             IF containsDirectedPathBetween(removed, complement(EMPTY, n), i, nbr)
             THEN r.deletableEdges \cup {en[i][nbr]}
             ELSE r.deletableEdges,
         orientation |-> addArc(removed, i, nbr)]

\* lines 283-284: one step of the loops, to the next nbr of
\* orientation->adjacencyList[i], which is read again at every step, or to i + 1
deletableStep(r, n, en) ==
    LET nbr == next(r.orientation.adjacencyList[r.i], r.nbr)
    IN  IF nbr = -1 THEN [r EXCEPT !.i = @ + 1, !.nbr = -1]
        ELSE deletableArc(r, n, en, r.i, nbr)

RECURSIVE deletableRun(_, _, _, _), deletableLoop(_, _, _)

deletableRun(r, n, en, k) ==
    IF r.i >= n THEN r
    ELSE IF k = 0 THEN deletableStep(r, n, en)
    ELSE deletableRun(deletableRun(r, n, en, k - 1), n, en, k - 1)

deletableLoop(r, n, en) ==
    IF r.i >= n THEN r
    ELSE deletableLoop(deletableRun(r, n, en, RunLog), n, en)

\* a variant of getDeletableEdges that skips the arcs that leave vertex 0
getDeletableEdgesFromOne(g, n, en) ==
    deletableLoop([i |-> 1, nbr |-> -1, deletableEdges |-> EMPTY, orientation |-> g],
                  n, en)

\* returns the bitset and the orientation as the call leaves it
getDeletableEdges(g, n, en) ==
    deletableLoop([i |-> 0, nbr |-> -1, deletableEdges |-> EMPTY, orientation |-> g],
                  n, en)

-----------------------------------------------------------------------------
(* Exact algorithm: the brute force pool *)

isSubset(set1, set2) == set1 = (set1 \cap set2)

\* a variant of bitsetContainingAllEdges that leaves out the last edge
bitsetContainingAllEdgesButOne(n) == complement(EMPTY, (3 * n) \div 2 - 1)

\* complement(EMPTY, 3*numberOfVertices/2)
bitsetContainingAllEdges(n) == complement(EMPTY, (3 * n) \div 2)

\* Array: array[0 .. used-1] is kept as a sequence, slot i at position i + 1
initArray(initialSize) == [array |-> <<>>, used |-> 0, size |-> initialSize]

insertArray(a, element) ==
    [array |-> Append(a.array, element),
     used  |-> a.used + 1,
     size  |-> IF a.used = a.size THEN a.size * 2 ELSE a.size]

insertArrayAtPos(a, element, index) ==
    [a EXCEPT !.array[index + 1] = element]

\* intermediateSlot without the replacement of a stored subset by EMPTY
intermediateSlotKeepingSubsets(sc, n, deletable, i) ==
    IF sc.pool.array[i + 1] # EMPTY
    THEN IF isSubset(deletable, sc.pool.array[i + 1])
         THEN [sc EXCEPT !.cnt.orientationsGivingSubset = @ + 1, !.ret = 0]
         ELSE IF (deletable \cup sc.pool.array[i + 1])
                     = bitsetContainingAllEdges(n)
              THEN [sc EXCEPT !.cnt.complementaryBitsets = @ + 1,
                              !.pool = insertArray(@, deletable),
                              !.ret = 2]
              ELSE sc
    ELSE [sc EXCEPT !.insertPosition =
             IF @ = sc.pool.used THEN i ELSE @]

\* sc = [pool, cnt, insertPosition, ret]: the state of the for loop of
\* getIntermediateFrankNumber; ret is NoValue until the loop returns
\* the body of the loop for slot i
intermediateSlot(sc, n, deletable, i) ==
    IF sc.pool.array[i + 1] # EMPTY
    THEN IF isSubset(deletable, sc.pool.array[i + 1])
         THEN [sc EXCEPT !.cnt.orientationsGivingSubset = @ + 1, !.ret = 0]
         ELSE LET super == isSubset(sc.pool.array[i + 1], deletable)
                  sc2 == IF super
                         THEN [sc EXCEPT
                                  !.pool.array[i + 1] = EMPTY,
                                  !.cnt.orientationsGivingSuperset =
                                      IF sc.insertPosition = sc.pool.used
                                      THEN @ + 1 ELSE @]
                         ELSE sc
              IN  IF (deletable \cup sc2.pool.array[i + 1])
                         = bitsetContainingAllEdges(n)
                  THEN [sc2 EXCEPT !.cnt.complementaryBitsets = @ + 1,
                                   !.pool = insertArray(@, deletable),
                                   !.ret = 2]
                  ELSE sc2
    ELSE [sc EXCEPT !.insertPosition =
             IF @ = sc.pool.used THEN i ELSE @]

RECURSIVE intermediateScan(_, _, _, _, _)

\* the iterations lo .. hi - 1 of the loop, in order, up to the first return
intermediateScan(sc, n, deletable, lo, hi) ==
    IF sc.ret # -1 \/ lo >= hi THEN sc
    ELSE IF hi = lo + 1 THEN intermediateSlot(sc, n, deletable, lo)
    ELSE intermediateScan(
             intermediateScan(sc, n, deletable, lo, (lo + hi) \div 2),
             n, deletable, (lo + hi) \div 2, hi)

getIntermediateFrankNumber(cnt, n, a, deletable) ==
    LET sc == intermediateScan([pool |-> a, cnt |-> cnt,
                                insertPosition |-> a.used, ret |-> -1],
                               n, deletable, 0, a.used)
    IN  IF sc.ret # -1 THEN sc
        ELSE [sc EXCEPT !.ret = 0,
                        !.pool = IF sc.insertPosition # a.used
                                 THEN insertArrayAtPos(@, deletable,
                                                       sc.insertPosition)
                                 ELSE insertArray(@, deletable)]

-----------------------------------------------------------------------------
(* Exact algorithm: the complementary-orientation solver *)

RECURSIVE Ascending(_, _)

\* the elements of the set above current, in the order forEach visits them
Ascending(set, current) ==
    LET e == next(set, current)
    IN  IF e = -1 THEN <<>> ELSE <<e>> \o Ascending(set, e)

otherEdgesAreNonDeletable(adj, x, y, deletable, en) ==
    \A element \in adj[x] : element = y \/ en[x][element] \notin deletable

\* the first neighbour of x other than y whose edge to x is not deletable, or -1
firstNonDeletableNeighbour(adj, x, y, deletable, en) ==
    next({element \in adj[x] : element # y /\ en[x][element] \notin deletable}, -1)

\* as arcContradictsRules, but a non-deletable edge is refused as soon as one
\* of its ends has any arc in the direction asked for
arcContradictsRulesAtDegreeOne(adj, o, x, y, deletable, en) ==
    IF en[x][y] \in deletable
    THEN \/ \E element \in adj[x] :
               /\ element # y
               /\ en[x][element] \in deletable
               /\ element \in o.adjacencyList[x]
         \/ \E element \in adj[y] :
               /\ element # x
               /\ en[y][element] \in deletable
               /\ element \in o.reverseAdjacencyList[y]
    ELSE \/ size(o.adjacencyList[x]) >= 1
         \/ size(o.reverseAdjacencyList[y]) >= 1

\* lines 418-483: the tests made before the arc x -> y is committed
arcContradictsRules(adj, o, x, y, deletable, en) ==
    IF en[x][y] \in deletable
    THEN \/ \E element \in adj[x] :
               /\ element # y
               /\ en[x][element] \in deletable
               /\ element \in o.adjacencyList[x]
         \/ \E element \in adj[y] :
               /\ element # x
               /\ en[y][element] \in deletable
               /\ element \in o.reverseAdjacencyList[y]
    ELSE \/ size(o.adjacencyList[x]) >= 2
         \/ size(o.reverseAdjacencyList[x]) >= 2
         \/ size(o.adjacencyList[y]) >= 2
         \/ size(o.reverseAdjacencyList[y]) >= 2
         \/ /\ firstNonDeletableNeighbour(adj, x, y, deletable, en) # -1
            /\ y \in o.reverseAdjacencyList[x]
         \/ /\ firstNonDeletableNeighbour(adj, y, x, deletable, en) # -1
            /\ x \in o.adjacencyList[y]

\* canAddNewArc calls itself for the arcs the new arc forces, and returns
\* false as soon as one of these calls does. It is run on the list of what is
\* still to do, in the order the calls are made: a task is a call for the arc
\* x -> y, or one of the four tests that end in a call when they hold for the
\* orientation as it is when they are reached.
task(rule, x, y) == [rule |-> rule, x |-> x, y |-> y]

arcsInto(x, nbrs) == [k \in 1 .. Len(nbrs) |-> task("canAddNewArc", nbrs[k], x)]
arcsOutOf(y, nbrs) == [k \in 1 .. Len(nbrs) |-> task("canAddNewArc", y, nbrs[k])]

\* lines 511-561: the calls the deletable edge x -> y makes, in the order the
\* four loops make them
forcedByDeletable(adj, x, y, deletable, en) ==
    arcsInto(x, Ascending({e \in adj[x] : e # y /\ en[x][e] \in deletable}, -1))
    \o arcsOutOf(y, Ascending({e \in adj[y] : e # x /\ en[y][e] \in deletable}, -1))
    \o (IF otherEdgesAreNonDeletable(adj, x, y, deletable, en)
        THEN arcsInto(x, Ascending(adj[x] \ {y}, -1)) ELSE <<>>)
    \o (IF otherEdgesAreNonDeletable(adj, y, x, deletable, en)
        THEN arcsOutOf(y, Ascending(adj[y] \ {x}, -1)) ELSE <<>>)

\* lines 592-616: the calls the non-deletable edge x -> y makes for the other
\* non-deletable edge at x and at y
forcedByNonDeletable(adj, x, y, deletable, en) ==
    LET fx == firstNonDeletableNeighbour(adj, x, y, deletable, en)
        fy == firstNonDeletableNeighbour(adj, y, x, deletable, en)
    IN  (IF fx = -1 THEN <<>> ELSE <<task("canAddNewArc", x, fx)>>)
        \o (IF fy = -1 THEN <<>> ELSE <<task("canAddNewArc", fy, y)>>)

\* lines 485-618: what the call for x -> y does after addArc
afterAddArc(adj, x, y, deletable, en) ==
    <<task("finalIncoming", x, x), task("finalOutgoing", y, y)>>
    \o (IF en[x][y] \in deletable
        THEN forcedByDeletable(adj, x, y, deletable, en)
        ELSE <<task("outgoingAfterTwoIncoming", y, y),
               task("incomingAfterOneEach", y, y)>>
             \o forcedByNonDeletable(adj, x, y, deletable, en))

\* the arc <<from, to>> a task calls canAddNewArc for, <<>> when its test fails
arcOfTask(adj, o, t) ==
    IF t.rule = "canAddNewArc" THEN <<t.x, t.y>>
    ELSE IF t.rule = "finalIncoming"
    THEN \* lines 488-491: two outgoing and no incoming, add the final incoming
         IF size(o.adjacencyList[t.x]) = 2 /\ size(o.reverseAdjacencyList[t.x]) < 1
         THEN <<next(adj[t.x] \ o.adjacencyList[t.x], -1), t.x>> ELSE <<>>
    ELSE IF t.rule = "finalOutgoing"
    THEN \* lines 499-502: no outgoing and two incoming, add the final outgoing
         IF size(o.adjacencyList[t.y]) = 0 /\ size(o.reverseAdjacencyList[t.y]) = 2
         THEN <<t.y, next(adj[t.y] \ o.reverseAdjacencyList[t.y], -1)>> ELSE <<>>
    ELSE IF t.rule = "outgoingAfterTwoIncoming"
    THEN \* lines 567-570
         IF size(o.adjacencyList[t.y]) = 0 /\ size(o.reverseAdjacencyList[t.y]) = 2
         THEN <<t.y, next(adj[t.y] \ o.adjacencyList[t.y], -1)>> ELSE <<>>
    ELSE \* lines 579-583: one outgoing and one incoming, the third is incoming
         IF size(o.adjacencyList[t.y]) = 1 /\ size(o.reverseAdjacencyList[t.y]) = 1
         THEN <<next(adj[t.y] \ (o.adjacencyList[t.y]
                                    \cup o.reverseAdjacencyList[t.y]), -1), t.y>>
         ELSE <<>>

\* lines 403-485: the call for x -> y up to addArc; st = [tasks, orientation, ok]
enterCanAddNewArc(adj, st, x, y, deletable, en) ==
    LET o == st.orientation
    IN  IF y \in o.adjacencyList[x] THEN st
        ELSE IF \/ x \in o.adjacencyList[y]
                \/ size(o.adjacencyList[x]) >= 2
                \/ size(o.reverseAdjacencyList[y]) >= 2
                \/ arcContradictsRules(adj, o, x, y, deletable, en)
        THEN [st EXCEPT !.tasks = <<>>, !.ok = FALSE]
        ELSE [st EXCEPT !.orientation = addArc(o, x, y),
                        !.tasks = afterAddArc(adj, x, y, deletable, en) \o @]

\* the first task of the list is carried out
canAddNewArcStep(adj, st, deletable, en) ==
    LET arc == arcOfTask(adj, st.orientation, Head(st.tasks))
        rest == [st EXCEPT !.tasks = Tail(@)]
    IN  IF arc = <<>> THEN rest
        ELSE enterCanAddNewArc(adj, rest, arc[1], arc[2], deletable, en)

RECURSIVE canAddNewArcRun(_, _, _, _, _), canAddNewArcLoop(_, _, _, _)

canAddNewArcRun(adj, st, deletable, en, k) ==
    IF st.tasks = <<>> THEN st
    ELSE IF k = 0 THEN canAddNewArcStep(adj, st, deletable, en)
    ELSE canAddNewArcRun(adj, canAddNewArcRun(adj, st, deletable, en, k - 1),
                         deletable, en, k - 1)

canAddNewArcLoop(adj, st, deletable, en) ==
    IF st.tasks = <<>> THEN st
    ELSE canAddNewArcLoop(adj, canAddNewArcRun(adj, st, deletable, en, RunLog),
                          deletable, en)

\* returns [ok, orientation]: the return value and the orientation as the
\* call leaves it
canAddNewArc(adj, o, x, y, deletable, en) ==
    LET st == canAddNewArcLoop(adj, [tasks |-> <<task("canAddNewArc", x, y)>>,
                                     orientation |-> o, ok |-> TRUE],
                               deletable, en)
    IN  [ok |-> st.ok, orientation |-> st.orientation]

RECURSIVE nextOpenEdge(_, _, _, _, _)

\* nextOpenEdge passing over the edges without an arc whose smaller endpoint
\* is not vertex 0
nextOpenEdgeAtVertexZero(adj, n, o, endpoint1, endpoint2) ==
    IF endpoint2 = -1 /\ endpoint1 < n - 1
    THEN nextOpenEdge(adj, n, o, endpoint1 + 1,
                      next(adj[endpoint1 + 1], endpoint1 + 1))
    ELSE IF endpoint2 = -1 THEN <<endpoint1, endpoint2>>
    ELSE IF \/ endpoint2 \in o.adjacencyList[endpoint1]
            \/ endpoint1 \in o.adjacencyList[endpoint2]
            \/ endpoint1 >= 1
    THEN nextOpenEdge(adj, n, o, endpoint1, next(adj[endpoint1], endpoint2))
    ELSE <<endpoint1, endpoint2>>

\* lines 627-631 and 654-660: the calls that only pass on to the next vertex
\* or to the next edge lead from <<endpoint1, endpoint2>> to the next edge
\* without an arc, or to <<n - 1, -1>> when there is none
nextOpenEdge(adj, n, o, endpoint1, endpoint2) ==
    IF endpoint2 = -1 /\ endpoint1 < n - 1
    THEN nextOpenEdge(adj, n, o, endpoint1 + 1,
                      next(adj[endpoint1 + 1], endpoint1 + 1))
    ELSE IF endpoint2 = -1 THEN <<endpoint1, endpoint2>>
    ELSE IF \/ endpoint2 \in o.adjacencyList[endpoint1]
            \/ endpoint1 \in o.adjacencyList[endpoint2]
    THEN nextOpenEdge(adj, n, o, endpoint1, next(adj[endpoint1], endpoint2))
    ELSE <<endpoint1, endpoint2>>

\* an activation record of canCompleteCompOrientation: its edge, where it is
\* and its orientationCopy
compFrame(endpoint1, endpoint2, at, orientationCopy) ==
    [endpoint1 |-> endpoint1, endpoint2 |-> endpoint2, at |-> at,
     orientationCopy |-> orientationCopy]

\* orientBackwards without lines 687-692: endpoint2 -> endpoint1 is tried on
\* the orientation the failed attempt left behind
orientBackwardsUnrestored(adj, st, f, deletable, en) ==
    LET b == canAddNewArc(adj, st.orientation, f.endpoint2, f.endpoint1,
                          deletable, en)
    IN  IF b.ok
        THEN [frames |-> SubSeq(st.frames, 1, Len(st.frames) - 1)
                         \o <<[f EXCEPT !.at = "second"],
                              compFrame(f.endpoint1,
                                        next(adj[f.endpoint1], f.endpoint2),
                                        "call", emptyGraph(0))>>,
              orientation |-> b.orientation,
              returned |-> FALSE]
        ELSE [frames |-> SubSeq(st.frames, 1, Len(st.frames) - 1),
              orientation |-> b.orientation,
              returned |-> FALSE]

\* lines 687-711: the orientation is put back and endpoint2 -> endpoint1 tried;
\* st = [frames, orientation, returned], f the innermost record
orientBackwards(adj, st, f, deletable, en) ==
    LET b == canAddNewArc(adj, f.orientationCopy, f.endpoint2, f.endpoint1,
                          deletable, en)
    IN  IF b.ok
        THEN [frames |-> SubSeq(st.frames, 1, Len(st.frames) - 1)
                         \o <<[f EXCEPT !.at = "second"],
                              compFrame(f.endpoint1,
                                        next(adj[f.endpoint1], f.endpoint2),
                                        "call", emptyGraph(0))>>,
              orientation |-> b.orientation,
              returned |-> FALSE]
        ELSE [frames |-> SubSeq(st.frames, 1, Len(st.frames) - 1),
              orientation |-> b.orientation,
              returned |-> FALSE]

\* one call of canCompleteCompOrientation is entered, or the innermost call
\* goes on after the call it made has returned
canCompleteCompOrientationStep(adj, n, st, deletable, en) ==
    LET f == st.frames[Len(st.frames)]
        below == SubSeq(st.frames, 1, Len(st.frames) - 1)
    IN  IF f.at = "call"
        THEN LET at == nextOpenEdge(adj, n, st.orientation, f.endpoint1, f.endpoint2)
             IN  IF at[2] = -1
                 THEN \* lines 634-652: is the orientation complementary?
                      LET c == getDeletableEdges(st.orientation, n, en)
                      IN  [frames |-> below,
                           orientation |-> c.orientation,
                           returned |-> (deletable \cup c.deletableEdges)
                                            = bitsetContainingAllEdges(n)]
                 ELSE \* lines 662-680
                      LET g == compFrame(at[1], at[2], "first", st.orientation)
                          a == canAddNewArc(adj, st.orientation, at[1], at[2],
                                            deletable, en)
                      IN  IF a.ok
                          THEN [frames |-> below \o
                                    <<g, compFrame(at[1], next(adj[at[1]], at[2]),
                                                   "call", emptyGraph(0))>>,
                                orientation |-> a.orientation,
                                returned |-> FALSE]
                          ELSE orientBackwards(adj, st, g, deletable, en)
        ELSE IF f.at = "first"
        THEN IF st.returned THEN [st EXCEPT !.frames = below]
             ELSE orientBackwards(adj, st, f, deletable, en)
        ELSE \* lines 699-711: what the second call returned is returned
             [st EXCEPT !.frames = below]

\* lines 719-735: the first arc is fixed, then canCompleteCompOrientation is
\* called; st = [frames, orientation, returned]
hasComplementaryOrientation(adj, n, deletable, en) ==
    LET first == canAddNewArc(adj, emptyGraph(n), 0, next(adj[0], -1), deletable, en)
    IN  [frames |-> IF first.ok
                    THEN <<compFrame(0, next(adj[0], -1), "call", emptyGraph(0))>>
                    ELSE <<>>,
         orientation |-> first.orientation,
         returned |-> FALSE]

\* the test of generateAllOrientations for a vertex none of whose incident
\* edges is deletable
someVertexHasNoDeletableEdge(adj, n, deletable, en) ==
    \E i \in 0 .. (n - 1) : \A nbr \in adj[i] : en[i][nbr] \notin deletable

-----------------------------------------------------------------------------
(* Heuristic algorithm *)

\* struct cycle; cycle[] is the malloc'ed array, its entries at
\* numberOfElements and beyond are never read and are given as -1
emptyCycle(n) ==
    [cycleElements |-> EMPTY, numberOfElements |-> 0,
     cycle |-> [i \in 0 .. (n - 1) |-> -1]]

\* lines 946-950 (and 1398-1401): the first neighbour of currentVertex that is
\* neither previousVertex nor F[currentVertex]
nextOnCycle(adj, F, currentVertex, previousVertex) ==
    next(adj[currentVertex] \ {previousVertex, F[currentVertex]}, -1)

\* lines 931-937: the forEach of containsTwoOddCycles goes to element, or is
\* over (line 970); st = [M, oddCycles, numberOfOddCycles, uncheckedVertices,
\* element, currentVertex, previousVertex, cycleIsOdd, cycle, done, ret, fault]
startCycle(st, element) ==
    IF element = -1
    THEN [st EXCEPT !.done = TRUE, !.ret = (st.numberOfOddCycles = 2)]
    ELSE [st EXCEPT !.element = element,
                    !.currentVertex = element,
                    !.previousVertex = -1,
                    !.cycleIsOdd = FALSE,
                    !.cycle = EMPTY,
                    !.oddCycles = IF st.numberOfOddCycles < 2
                                  THEN [@ EXCEPT ![st.numberOfOddCycles].numberOfElements = 0]
                                  ELSE @]

\* lines 939-968: one turn of the do-while and, when it closes the cycle, the
\* parity bookkeeping that follows it
twoOddCyclesStep(adj, F, st) ==
    LET c == st.currentVertex
        k == st.numberOfOddCycles
        nextVertex == nextOnCycle(adj, F, c, st.previousVertex)
        stored == IF k < 2
                  THEN [st.oddCycles EXCEPT
                           ![k].cycle[st.oddCycles[k].numberOfElements] = c,
                           ![k].numberOfElements = @ + 1]
                  ELSE st.oddCycles
        cycle == st.cycle \cup {c}
        cycleIsOdd == ~st.cycleIsOdd
    IN  IF nextVertex = -1
        THEN [st EXCEPT !.done = TRUE, !.ret = FALSE, !.fault = TRUE]
        ELSE LET walked ==
                     [st EXCEPT !.uncheckedVertices = @ \ {c},
                                !.cycle = cycle,
                                !.oddCycles = stored,
                                !.M = IF @[c] = -1
                                      THEN [@ EXCEPT ![c] = nextVertex,
                                                     ![nextVertex] = c]
                                      ELSE @,
                                !.previousVertex = c,
                                !.currentVertex = nextVertex,
                                !.cycleIsOdd = cycleIsOdd]
             IN  IF nextVertex # st.element THEN walked
                 ELSE IF ~cycleIsOdd
                 THEN startCycle(walked, next(walked.uncheckedVertices, st.element))
                 ELSE IF k + 1 > 2
                 THEN [walked EXCEPT !.numberOfOddCycles = k + 1,
                                     !.done = TRUE, !.ret = FALSE]
                 ELSE startCycle(
                          [walked EXCEPT
                              !.numberOfOddCycles = k + 1,
                              !.oddCycles = IF k < 2
                                            THEN [@ EXCEPT ![k].cycleElements = cycle]
                                            ELSE @],
                          next(walked.uncheckedVertices, st.element))

RECURSIVE twoOddCyclesLoop(_, _, _)

twoOddCyclesLoop(adj, F, st) ==
    IF st.done THEN st ELSE twoOddCyclesLoop(adj, F, twoOddCyclesStep(adj, F, st))

\* returns [ret, oddCycles, M, fault]
containsTwoOddCycles(adj, n, F) ==
    twoOddCyclesLoop(adj, F,
        startCycle([M |-> [i \in 0 .. (n - 1) |-> -1],
                    oddCycles |-> [c \in 0 .. 1 |-> emptyCycle(n)],
                    numberOfOddCycles |-> 0,
                    uncheckedVertices |-> complement(EMPTY, n),
                    element |-> -1, currentVertex |-> -1, previousVertex |-> -1,
                    cycleIsOdd |-> FALSE, cycle |-> EMPTY,
                    done |-> FALSE, ret |-> FALSE, fault |-> FALSE],
                   next(complement(EMPTY, n), -1)))

\* lines 979-987 (and 991-999): one do-while of getOddCycleMatching on the
\* cycle c, from the index indexOfx; st = [M, currentIndex, addToMatching, done]
RECURSIVE oddCycleMatchingLoop(_, _, _)

oddCycleMatchingLoop(c, indexOfx, st) ==
    IF st.done THEN st
    ELSE LET nextIndex == (st.currentIndex + 1) % c.numberOfElements
         IN  oddCycleMatchingLoop(c, indexOfx,
                 [M |-> IF st.addToMatching
                        THEN [st.M EXCEPT
                                 ![c.cycle[nextIndex]] = c.cycle[st.currentIndex],
                                 ![c.cycle[st.currentIndex]] = c.cycle[nextIndex]]
                        ELSE st.M,
                  addToMatching |-> ~st.addToMatching,
                  currentIndex |-> nextIndex,
                  done |-> (nextIndex = indexOfx)])

\* the matching of the first odd cycle only is redone
getOddCycleMatchingOfFirstCycle(oddCycles, indexOfx1, indexOfx2, M) ==
    oddCycleMatchingLoop(oddCycles[0], indexOfx1,
        [M |-> M, currentIndex |-> indexOfx1,
         addToMatching |-> FALSE, done |-> FALSE]).M

\* returns M
getOddCycleMatching(oddCycles, indexOfx1, indexOfx2, M) ==
    oddCycleMatchingLoop(oddCycles[1], indexOfx2,
        [M |-> oddCycleMatchingLoop(oddCycles[0], indexOfx1,
                   [M |-> M, currentIndex |-> indexOfx1,
                    addToMatching |-> FALSE, done |-> FALSE]).M,
         currentIndex |-> indexOfx2, addToMatching |-> FALSE,
         done |-> FALSE]).M

findInArray(u, arr, arrLength) ==
    LET found == {i \in 0 .. (arrLength - 1) : arr[i] = u}
    IN  next(found, -1)

\* the do-while of lines 1028-1034 (1040-1046, 1455-1462): the circuit through
\* start is walked along M and F in turn and oriented; st =
\* [circuitOrientation, currentVertex, takeMaximalMatching, steps, done, fault].
\* A walk that steps on index -1, or that has not come back to start after
\* every (vertex, takeMaximalMatching) pair has been seen, is a fault.
RECURSIVE orientCircuitLoop(_, _, _, _)

orientCircuitLoop(M, F, start, st) ==
    IF st.done THEN st
    ELSE LET nextVertex == IF st.takeMaximalMatching THEN M[st.currentVertex]
                           ELSE F[st.currentVertex]
         IN  orientCircuitLoop(M, F, start,
                 [circuitOrientation |->
                      [st.circuitOrientation EXCEPT ![st.currentVertex] = nextVertex],
                  currentVertex |-> nextVertex,
                  takeMaximalMatching |-> ~st.takeMaximalMatching,
                  steps |-> st.steps + 1,
                  done |-> \/ nextVertex = start
                           \/ nextVertex = -1
                           \/ st.steps + 1 > 2 * Cardinality(DOMAIN M),
                  fault |-> \/ nextVertex = -1
                            \/ (nextVertex # start
                                /\ st.steps + 1 > 2 * Cardinality(DOMAIN M))])

\* returns [circuitOrientation, fault]
orientCircuit(M, F, circuitOrientation, start, takeMaximalMatching) ==
    orientCircuitLoop(M, F, start,
        [circuitOrientation |-> circuitOrientation, currentVertex |-> start,
         takeMaximalMatching |-> takeMaximalMatching, steps |-> 0,
         done |-> FALSE, fault |-> FALSE])

\* a variant of circuitOrientationIsConsistent that orients the circuits of
\* u and v and accepts them without comparing the two ends
circuitOrientationUncompared(M, F, circuitOrientation, u, v) ==
    IF u = -1 \/ v = -1
    THEN [ret |-> FALSE, circuitOrientation |-> circuitOrientation, fault |-> TRUE]
    ELSE LET a == IF circuitOrientation[u] = -1
                  THEN orientCircuit(M, F, circuitOrientation, u,
                                     circuitOrientation[v] = F[v])
                  ELSE [circuitOrientation |-> circuitOrientation, fault |-> FALSE]
             b == IF a.fault THEN a
                  ELSE IF a.circuitOrientation[v] = -1
                  THEN orientCircuit(M, F, a.circuitOrientation, v,
                                     a.circuitOrientation[u] = F[u])
                  ELSE a
         IN  [ret |-> ~b.fault,
              circuitOrientation |-> b.circuitOrientation,
              fault |-> b.fault]

\* returns [ret, circuitOrientation, fault]
circuitOrientationIsConsistent(M, F, circuitOrientation, u, v) ==
    IF u = -1 \/ v = -1
    THEN [ret |-> FALSE, circuitOrientation |-> circuitOrientation, fault |-> TRUE]
    ELSE LET a == IF circuitOrientation[u] = -1
                  THEN orientCircuit(M, F, circuitOrientation, u,
                                     circuitOrientation[v] = F[v])
                  ELSE [circuitOrientation |-> circuitOrientation, fault |-> FALSE]
             b == IF a.fault THEN a
                  ELSE IF a.circuitOrientation[v] = -1
                  THEN orientCircuit(M, F, a.circuitOrientation, v,
                                     a.circuitOrientation[u] = F[u])
                  ELSE a
         IN  [ret |-> /\ ~b.fault
                      /\ (b.circuitOrientation[u] = F[u])
                             = (b.circuitOrientation[v] = M[v]),
              circuitOrientation |-> b.circuitOrientation,
              fault |-> b.fault]

\* lines 1058-1068; st = [M, previousVertex, currentVertex,
\* addToMaximalMatching, steps, done, fault]
RECURSIVE rematchLoop(_, _, _, _)

rematchLoop(adj, F, y2, st) ==
    IF st.done THEN st
    ELSE LET nextVertex == next(adj[st.currentVertex]
                                   \ (singleton(F[st.currentVertex])
                                         \cup singleton(st.previousVertex)), -1)
         IN  rematchLoop(adj, F, y2,
                 [M |-> IF st.addToMaximalMatching /\ nextVertex # -1
                        THEN [st.M EXCEPT ![st.currentVertex] = nextVertex,
                                          ![nextVertex] = st.currentVertex]
                        ELSE st.M,
                  previousVertex |-> st.currentVertex,
                  currentVertex |-> nextVertex,
                  addToMaximalMatching |-> ~st.addToMaximalMatching,
                  steps |-> st.steps + 1,
                  done |-> \/ nextVertex = y2
                           \/ nextVertex = -1
                           \/ st.steps + 1 > Cardinality(DOMAIN adj),
                  fault |-> \/ nextVertex = -1
                            \/ (nextVertex # y2
                                /\ st.steps + 1 > Cardinality(DOMAIN adj))])

\* returns [M, fault]
rematch(adj, M, F, y1, y2) ==
    LET st == rematchLoop(adj, F, y2,
                  [M |-> M, previousVertex |-> y2, currentVertex |-> y1,
                   addToMaximalMatching |-> FALSE, steps |-> 0,
                   done |-> FALSE, fault |-> FALSE])
    IN  [M |-> IF st.fault THEN st.M
               ELSE [st.M EXCEPT ![y1] = y2, ![y2] = y1],
         fault |-> st.fault]

\* lines 1079-1084: the call DFS(..., v, parent, ...) up to its forEach;
\* st = [frames, component, uncheckedVertices, cycleFound]
DFS(v, parent, st) ==
    IF v \in st.component THEN [st EXCEPT !.cycleFound = TRUE]
    ELSE [st EXCEPT !.uncheckedVertices = @ \ {v},
                    !.component = @ \cup {v},
                    !.frames = Append(@, [v |-> v, parent |-> parent, nbr |-> -1])]

\* lines 1087-1090: the innermost call goes to its next nbr, or returns
DFSStep(adj, st) ==
    LET f == st.frames[Len(st.frames)]
        nbr == next(adj[f.v] \ singleton(f.parent), f.nbr)
    IN  IF nbr = -1
        THEN [st EXCEPT !.frames = SubSeq(@, 1, Len(@) - 1)]
        ELSE DFS(nbr, f.v, [st EXCEPT !.frames[Len(st.frames)].nbr = nbr])

RECURSIVE DFSRun(_, _, _), DFSLoop(_, _)

DFSRun(adj, st, k) ==
    IF st.frames = <<>> THEN st
    ELSE IF k = 0 THEN DFSStep(adj, st)
    ELSE DFSRun(adj, DFSRun(adj, st, k - 1), k - 1)

DFSLoop(adj, st) ==
    IF st.frames = <<>> THEN st
    ELSE DFSLoop(adj, DFSRun(adj, st, RunLog))

\* lines 1098-1110; st = [uncheckedVertices, v, components,
\* numberOfComponentsWithCycle, done, ret]
RECURSIVE cyclicallyConnectedLoop(_, _)

cyclicallyConnectedLoop(adj, st) ==
    IF st.done THEN st
    ELSE LET v == next(st.uncheckedVertices, st.v)
         IN  IF v = -1
             THEN [st EXCEPT !.done = TRUE, !.ret = TRUE]
             ELSE LET d == DFSLoop(adj,
                               DFS(v, -1, [frames |-> <<>>, component |-> EMPTY,
                                           uncheckedVertices |-> st.uncheckedVertices,
                                           cycleFound |-> FALSE]))
                      withCycle == IF d.cycleFound
                                   THEN st.numberOfComponentsWithCycle + 1
                                   ELSE st.numberOfComponentsWithCycle
                  IN  cyclicallyConnectedLoop(adj,
                          [uncheckedVertices |-> d.uncheckedVertices,
                           v |-> v,
                           components |-> Append(st.components, d.component),
                           numberOfComponentsWithCycle |-> withCycle,
                           done |-> withCycle >= 2,
                           ret |-> FALSE])

isCyclicallyConnected(adj, n) ==
    cyclicallyConnectedLoop(adj,
        [uncheckedVertices |-> complement(EMPTY, n), v |-> -1,
         components |-> <<>>, numberOfComponentsWithCycle |-> 0,
         done |-> FALSE, ret |-> FALSE]).ret

removeEdgeFromAdjList(adj, endpoint1, endpoint2) ==
    [adj EXCEPT ![endpoint1] = @ \ {endpoint2}, ![endpoint2] = @ \ {endpoint1}]

addEdgeToAdjList(adj, endpoint1, endpoint2) ==
    [adj EXCEPT ![endpoint1] = @ \cup {endpoint2}, ![endpoint2] = @ \cup {endpoint1}]

\* lines 1133-1161, one step of the two for loops; st = [adjacencyList, i, j,
\* hasCyclic211cut, done], j = -1 while the inner loop is not running
strong2EdgeStep(n, circuitOrientation, st) ==
    IF st.j = -1
    THEN \* line 1133-1139
         IF st.i >= n THEN [st EXCEPT !.done = TRUE]
         ELSE IF circuitOrientation[st.i] = -1 THEN [st EXCEPT !.i = @ + 1]
         ELSE [st EXCEPT !.adjacencyList =
                             removeEdgeFromAdjList(@, st.i, circuitOrientation[st.i]),
                         !.j = st.i + 1]
    ELSE IF st.j >= n \/ st.hasCyclic211cut
    THEN \* lines 1157-1160
         [st EXCEPT !.adjacencyList =
                        addEdgeToAdjList(@, st.i, circuitOrientation[st.i]),
                    !.j = -1,
                    !.i = @ + 1,
                    !.done = st.hasCyclic211cut]
    ELSE IF circuitOrientation[st.j] = -1 THEN [st EXCEPT !.j = @ + 1]
    ELSE \* lines 1145-1154
         LET removed == removeEdgeFromAdjList(st.adjacencyList, st.j,
                                              circuitOrientation[st.j])
         IN  [st EXCEPT !.hasCyclic211cut = ~isCyclicallyConnected(removed, n),
                        !.adjacencyList = addEdgeToAdjList(removed, st.j,
                                                           circuitOrientation[st.j]),
                        !.j = @ + 1]

RECURSIVE strong2EdgeRun(_, _, _, _), strong2EdgeLoop(_, _, _)

strong2EdgeRun(n, circuitOrientation, st, k) ==
    IF st.done THEN st
    ELSE IF k = 0 THEN strong2EdgeStep(n, circuitOrientation, st)
    ELSE strong2EdgeRun(n, circuitOrientation,
                        strong2EdgeRun(n, circuitOrientation, st, k - 1), k - 1)

strong2EdgeLoop(n, circuitOrientation, st) ==
    IF st.done THEN st
    ELSE strong2EdgeLoop(n, circuitOrientation,
                         strong2EdgeRun(n, circuitOrientation, st, RunLog))

\* returns [ret, adjacencyList]
edgeIsStrong2Edge(adj, n, endpoint1, endpoint2, circuitOrientation) ==
    LET st == strong2EdgeLoop(n, circuitOrientation,
                  [adjacencyList |-> removeEdgeFromAdjList(adj, endpoint1, endpoint2),
                   i |-> 0, j |-> -1, hasCyclic211cut |-> FALSE, done |-> FALSE])
    IN  [ret |-> ~st.hasCyclic211cut,
         adjacencyList |-> addEdgeToAdjList(st.adjacencyList, endpoint1, endpoint2)]

RECURSIVE removeEdgesBetweenCycles(_, _, _), addEdgesBetweenCycles(_, _, _)

\* lines 1171-1174
removeEdgesBetweenCycles(adj, edgesBetweenCycles, count) ==
    IF count = 0 THEN adj
    ELSE removeEdgeFromAdjList(
             removeEdgesBetweenCycles(adj, edgesBetweenCycles, count - 1),
             edgesBetweenCycles[2 * (count - 1)],
             edgesBetweenCycles[2 * (count - 1) + 1])

\* lines 1189-1192
addEdgesBetweenCycles(adj, edgesBetweenCycles, count) ==
    IF count = 0 THEN adj
    ELSE addEdgeToAdjList(
             addEdgesBetweenCycles(adj, edgesBetweenCycles, count - 1),
             edgesBetweenCycles[2 * (count - 1)],
             edgesBetweenCycles[2 * (count - 1) + 1])

\* lines 1175-1188, one endpoint of an edge between the cycles per step;
\* st = [last, k, done], last what edgeIsStrong2Edge returned for the endpoint
\* before, k the index in edgesBetweenCycles of the endpoint to test next
RECURSIVE suppressedEdgesLoop(_, _, _, _, _)

suppressedEdgesLoop(n, circuitOrientation, edgesBetweenCycles, count, st) ==
    IF st.done THEN st
    ELSE IF ~st.last.ret \/ st.k >= 2 * count THEN [st EXCEPT !.done = TRUE]
    ELSE suppressedEdgesLoop(n, circuitOrientation, edgesBetweenCycles, count,
             [last |-> edgeIsStrong2Edge(
                           st.last.adjacencyList, n, edgesBetweenCycles[st.k],
                           next(st.last.adjacencyList[edgesBetweenCycles[st.k]], -1),
                           circuitOrientation),
              k |-> st.k + 1, done |-> FALSE])

\* the edges are put back when the answer is true only
suppressedEdgesRestoredOnSuccess(st, edgesBetweenCycles, count) ==
    [ret |-> st.last.ret,
     adjacencyList |->
         IF st.last.ret
         THEN addEdgesBetweenCycles(st.last.adjacencyList, edgesBetweenCycles, count)
         ELSE st.last.adjacencyList]

\* lines 1189-1193: the edges are put back, whatever the answer
suppressedEdgesRestored(st, edgesBetweenCycles, count) ==
    [ret |-> st.last.ret,
     adjacencyList |->
         addEdgesBetweenCycles(st.last.adjacencyList, edgesBetweenCycles, count)]

\* returns [ret, adjacencyList]
suppressedEdgesAreDeletable(adj, n, circuitOrientation, edgesBetweenCycles, count) ==
    suppressedEdgesRestored(
        suppressedEdgesLoop(n, circuitOrientation, edgesBetweenCycles, count,
            [last |-> [ret |-> TRUE,
                       adjacencyList |->
                           removeEdgesBetweenCycles(adj, edgesBetweenCycles, count)],
             k |-> 0, done |-> FALSE]),
        edgesBetweenCycles, count)

\* the successor and the predecessor of the index-th vertex of a cycle
successorOn(c, index) == c.cycle[(index + 1) % c.numberOfElements]
predecessorOn(c, index) ==
    c.cycle[(c.numberOfElements + index - 1) % c.numberOfElements]

\* what one configuration test leaves behind, s = [ret, adjacencyList] being what
\* suppressedEdgesAreDeletable returned; configuration is 0 when the test failed,
\* else the number of the configuration found
tested(M, circuitOrientation, edgesBetweenCycles, s, fault, configuration) ==
    [M |-> M, circuitOrientation |-> circuitOrientation,
     edgesBetweenCycles |-> edgesBetweenCycles, adjacencyList |-> s.adjacencyList,
     fault |-> fault, configuration |-> IF s.ret THEN configuration ELSE 0]

\* the test not reached: the graph is as it was
untested(adj) == [ret |-> FALSE, adjacencyList |-> adj]

\* lines 1250-1255 and 1323-1328: the conjunction of the calls of
\* circuitOrientationIsConsistent on the pairs <<u1, v1, u2, v2, ...>>, left to
\* right, stopping at the first that fails; c is what the call before returned
RECURSIVE circuitsConsistent(_, _, _, _)

circuitsConsistent(M, F, pairs, c) ==
    IF ~c.ret \/ pairs = <<>> THEN c
    ELSE circuitsConsistent(M, F, Tail(Tail(pairs)),
             circuitOrientationIsConsistent(M, F, c.circuitOrientation,
                                            pairs[1], pairs[2]))

\* lines 1245-1249: no circuit is oriented yet
unorientedCircuits(n) ==
    [ret |-> TRUE, circuitOrientation |-> [i \in 0 .. (n - 1) |-> -1],
     fault |-> FALSE]

\* lines 1250-1275 and 1323-1349: r = [M, fault] is the matching at hand, c what
\* the consistency tests returned
configurationTested(adj, n, r, c, edgesBetweenCycles, count, configuration) ==
    IF r.fault THEN tested(r.M, <<>>, <<>>, untested(adj), TRUE, 0)
    ELSE IF ~c.ret
    THEN tested(r.M, c.circuitOrientation, <<>>, untested(adj), c.fault, 0)
    ELSE tested(r.M, c.circuitOrientation, edgesBetweenCycles,
                suppressedEdgesAreDeletable(adj, n, c.circuitOrientation,
                                            edgesBetweenCycles, count),
                FALSE, configuration)

\* M is left as it is
rematchedNever(adj, M, F, nbrOfU, nbrOfV) ==
    [M |-> M, fault |-> FALSE]

\* lines 1315-1320
rematched(adj, M, F, nbrOfU, nbrOfV) ==
    IF M[nbrOfU] # nbrOfV THEN rematch(adj, M, F, nbrOfU, nbrOfV)
    ELSE [M |-> M, fault |-> FALSE]

\* lines 1223-1275: the odd cycles are joined by the edge uv of F; matched is M
\* after getOddCycleMatching
firstConfigurationAt(adj, n, F, oddCycles, matched, u, indexOfx1, indexOfx2) ==
    configurationTested(adj, n, [M |-> matched, fault |-> FALSE],
        circuitsConsistent(matched, F,
            <<successorOn(oddCycles[0], indexOfx1),
              predecessorOn(oddCycles[0], indexOfx1),
              successorOn(oddCycles[1], indexOfx2),
              predecessorOn(oddCycles[1], indexOfx2)>>,
            unorientedCircuits(n)),
        [k \in 0 .. 1 |-> IF k = 0 THEN u ELSE F[u]], 1, 1)

firstConfiguration(adj, n, F, oddCycles, M, u) ==
    firstConfigurationAt(adj, n, F, oddCycles,
        getOddCycleMatching(oddCycles,
            findInArray(u, oddCycles[0].cycle, oddCycles[0].numberOfElements),
            findInArray(F[u], oddCycles[1].cycle, oddCycles[1].numberOfElements),
            M),
        u,
        findInArray(u, oddCycles[0].cycle, oddCycles[0].numberOfElements),
        findInArray(F[u], oddCycles[1].cycle, oddCycles[1].numberOfElements))

\* lines 1288-1349: r = [M, fault] is M after getOddCycleMatching and rematch
secondConfigurationAt(adj, n, F, oddCycles, r, u, nbrOfU, nbrOfV, v, indexOfx1, indexOfx2) ==
    configurationTested(adj, n, r,
        circuitsConsistent(r.M, F,
            <<successorOn(oddCycles[0], indexOfx1),
              predecessorOn(oddCycles[0], indexOfx1),
              successorOn(oddCycles[1], indexOfx2),
              predecessorOn(oddCycles[1], indexOfx2),
              next(adj[nbrOfU] \ (singleton(nbrOfV) \cup singleton(F[nbrOfU])), -1),
              next(adj[nbrOfV] \ (singleton(nbrOfU) \cup singleton(F[nbrOfV])), -1)>>,
            unorientedCircuits(n)),
        [k \in 0 .. 3 |-> CASE k = 0 -> u [] k = 1 -> nbrOfU
                            [] k = 2 -> nbrOfV [] OTHER -> v],
        2, 2)

\* lines 1283-1349 once v is known
secondConfigurationTo(adj, n, F, oddCycles, M, u, nbrOfU, nbrOfV, v) ==
    IF nbrOfV = u \/ v = -1
    THEN tested(M, <<>>, <<>>, untested(adj), FALSE, 0)
    ELSE secondConfigurationAt(adj, n, F, oddCycles,
             rematched(adj,
                 getOddCycleMatching(oddCycles,
                     findInArray(u, oddCycles[0].cycle, oddCycles[0].numberOfElements),
                     findInArray(v, oddCycles[1].cycle, oddCycles[1].numberOfElements),
                     M),
                 F, nbrOfU, nbrOfV),
             u, nbrOfU, nbrOfV, v,
             findInArray(u, oddCycles[0].cycle, oddCycles[0].numberOfElements),
             findInArray(v, oddCycles[1].cycle, oddCycles[1].numberOfElements))

\* lines 1280-1349, the body of the forEach for one nbrOfV: the odd cycles are
\* joined by the path u, nbrOfU, nbrOfV, v
secondConfigurationVia(adj, n, F, oddCycles, M, u, nbrOfU, nbrOfV) ==
    secondConfigurationTo(adj, n, F, oddCycles, M, u, nbrOfU, nbrOfV,
        next(adj[nbrOfV] \cap oddCycles[1].cycleElements, -1))

\* lines 1279-1350: the forEach over the neighbours nbrOfV of nbrOfU;
\* st = [t, nbrOfV, done], t what the last test left behind
RECURSIVE secondConfigurationLoop(_, _, _, _, _, _)

secondConfigurationLoop(n, F, oddCycles, u, nbrOfU, st) ==
    IF st.done THEN st
    ELSE IF st.t.configuration # 0 \/ st.t.fault
            \/ next(st.t.adjacencyList[nbrOfU], st.nbrOfV) = -1
    THEN [st EXCEPT !.done = TRUE]
    ELSE secondConfigurationLoop(n, F, oddCycles, u, nbrOfU,
             [t |-> secondConfigurationVia(
                        st.t.adjacencyList, n, F, oddCycles, st.t.M, u, nbrOfU,
                        next(st.t.adjacencyList[nbrOfU], st.nbrOfV)),
              nbrOfV |-> next(st.t.adjacencyList[nbrOfU], st.nbrOfV),
              done |-> FALSE])

\* lines 1221-1351, the body of the forEach for one vertex u of the first odd
\* cycle
configurationAt(adj, n, F, oddCycles, M, u) ==
    IF F[u] \in oddCycles[1].cycleElements
    THEN firstConfiguration(adj, n, F, oddCycles, M, u)
    ELSE IF F[u] \notin oddCycles[0].cycleElements
    THEN secondConfigurationLoop(n, F, oddCycles, u, F[u],
             [t |-> tested(M, <<>>, <<>>, untested(adj), FALSE, 0), nbrOfV |-> -1,
              done |-> FALSE]).t
    ELSE tested(M, <<>>, <<>>, untested(adj), FALSE, 0)

\* hasSufficientCondition as a machine on its call stack; st = [frames, F,
\* returned], a frame = [remainingVertices, neighbor], returned is -1 when no
\* call has just returned, else 0 for false and 1 for true
matchFrame(remainingVertices) ==
    [remainingVertices |-> remainingVertices, neighbor |-> -1]

\* line 1210: the innermost call has just been entered with a perfect matching
atPerfectMatching(st) ==
    /\ st.frames # <<>>
    /\ st.returned = -1
    /\ st.frames[Len(st.frames)].remainingVertices = EMPTY

\* the innermost call tries the first neighbor only
matchingStepFirstNeighbourOnly(adj, st) ==
    LET f == st.frames[Len(st.frames)]
        nextVertex == next(f.remainingVertices, -1)
        neighbor == IF f.neighbor = -1
                    THEN next(adj[nextVertex] \cap f.remainingVertices, -1)
                    ELSE -1
    IN  IF st.returned = 1
        THEN [st EXCEPT !.frames = SubSeq(@, 1, Len(@) - 1)]
        ELSE IF neighbor = -1
        THEN [st EXCEPT !.frames = SubSeq(@, 1, Len(@) - 1), !.returned = 0]
        ELSE [frames |-> Append([st.frames EXCEPT ![Len(st.frames)].neighbor = neighbor],
                                matchFrame(f.remainingVertices \ {nextVertex, neighbor})),
              F |-> [st.F EXCEPT ![neighbor] = nextVertex, ![nextVertex] = neighbor],
              returned |-> -1]

\* lines 1362-1373: the innermost call goes to its next neighbor, or returns
matchingStep(adj, st) ==
    LET f == st.frames[Len(st.frames)]
        nextVertex == next(f.remainingVertices, -1)
        neighbor == next(adj[nextVertex] \cap f.remainingVertices, f.neighbor)
    IN  IF st.returned = 1
        THEN [st EXCEPT !.frames = SubSeq(@, 1, Len(@) - 1)]
        ELSE IF neighbor = -1
        THEN [st EXCEPT !.frames = SubSeq(@, 1, Len(@) - 1), !.returned = 0]
        ELSE [frames |-> Append([st.frames EXCEPT ![Len(st.frames)].neighbor = neighbor],
                                matchFrame(f.remainingVertices \ {nextVertex, neighbor})),
              F |-> [st.F EXCEPT ![neighbor] = nextVertex, ![nextVertex] = neighbor],
              returned |-> -1]

RECURSIVE runToPerfectMatching(_, _)

\* the calls and returns up to the next perfect matching, or out of the
\* outermost call
runToPerfectMatching(adj, st) ==
    IF st.frames = <<>> \/ atPerfectMatching(st) THEN st
    ELSE runToPerfectMatching(adj, matchingStep(adj, st))

\* lines 1389-1395: the neighbour of startingVertex on its cycle that the walk
\* is taken to come from
walkComesFrom(adj, F, circuitOrientation, startingVertex) ==
    LET onCycle == adj[startingVertex] \ singleton(F[startingVertex])
        previousVertex == next(onCycle, -1)
    IN  IF \/ circuitOrientation[previousVertex] = -1
           \/ circuitOrientation[previousVertex] # F[previousVertex]
        THEN next(onCycle, previousVertex)
        ELSE previousVertex

\* lines 1396-1413; st = [orientation1, orientation2, uncheckedVertices,
\* currentVertex, previousVertex, steps, done, fault]
RECURSIVE orient2FactorLoop(_, _, _, _, _)

orient2FactorLoop(adj, F, circuitOrientation, startingVertex, st) ==
    IF st.done THEN st
    ELSE LET c == st.currentVertex
             nextVertex == nextOnCycle(adj, F, c, st.previousVertex)
         IN  orient2FactorLoop(adj, F, circuitOrientation, startingVertex,
                 IF nextVertex = -1
                 THEN [st EXCEPT !.done = TRUE, !.fault = TRUE]
                 ELSE [orientation1 |->
                           IF /\ circuitOrientation[nextVertex] # c
                              /\ circuitOrientation[c] # nextVertex
                           THEN addArc(st.orientation1, c, nextVertex)
                           ELSE st.orientation1,
                       orientation2 |->
                           IF circuitOrientation[nextVertex] = c
                           THEN removeArc(addArc(st.orientation2, c, nextVertex),
                                          nextVertex, c)
                           ELSE IF circuitOrientation[c] # nextVertex
                           THEN addArc(st.orientation2, c, nextVertex)
                           ELSE st.orientation2,
                       uncheckedVertices |-> st.uncheckedVertices \ {c},
                       currentVertex |-> nextVertex,
                       previousVertex |-> c,
                       steps |-> st.steps + 1,
                       done |-> \/ nextVertex = startingVertex
                                \/ st.steps + 1 > Cardinality(DOMAIN adj),
                       fault |-> /\ nextVertex # startingVertex
                                 /\ st.steps + 1 > Cardinality(DOMAIN adj)])

\* b = [orientation1, orientation2, uncheckedVertices, fault]
orient2FactorCyclesInComplementaryOrientations(adj, F, circuitOrientation, startingVertex, b) ==
    LET st == orient2FactorLoop(adj, F, circuitOrientation, startingVertex,
                  [orientation1 |-> b.orientation1,
                   orientation2 |-> b.orientation2,
                   uncheckedVertices |-> b.uncheckedVertices,
                   currentVertex |-> startingVertex,
                   previousVertex |-> walkComesFrom(adj, F, circuitOrientation,
                                                    startingVertex),
                   steps |-> 0, done |-> FALSE, fault |-> FALSE])
    IN  [orientation1 |-> st.orientation1, orientation2 |-> st.orientation2,
         uncheckedVertices |-> st.uncheckedVertices,
         fault |-> b.fault \/ st.fault]

\* lines 1434-1441; b = [orientation1, orientation2, endpoints]
RECURSIVE arcsBetweenCycles(_, _, _)

arcsBetweenCycles(n, edgesBetweenCycles, count) ==
    IF count = 0
    THEN [orientation1 |-> emptyGraph(n), orientation2 |-> emptyGraph(n),
          endpoints |-> EMPTY]
    ELSE LET b == arcsBetweenCycles(n, edgesBetweenCycles, count - 1)
             x == edgesBetweenCycles[2 * (count - 1)]
             y == edgesBetweenCycles[2 * (count - 1) + 1]
         IN  [orientation1 |-> addArc(b.orientation1, x, y),
              orientation2 |-> addArc(b.orientation2, y, x),
              endpoints |-> b.endpoints \cup {x, y}]

\* lines 1444-1466; st = [i, circuitOrientation, orientation1, orientation2,
\* fault]
RECURSIVE arcsOfCircuitsLoop(_, _, _, _, _)

arcsOfCircuitsLoop(n, F, M, endpoints, st) ==
    IF st.i >= n \/ st.fault THEN st
    ELSE IF st.i \in endpoints
    THEN arcsOfCircuitsLoop(n, F, M, endpoints, [st EXCEPT !.i = @ + 1])
    ELSE LET o == IF st.circuitOrientation[st.i] = -1
                  THEN orientCircuit(M, F, st.circuitOrientation, st.i, TRUE)
                  ELSE [circuitOrientation |-> st.circuitOrientation,
                        fault |-> FALSE]
         IN  arcsOfCircuitsLoop(n, F, M, endpoints,
                 IF o.fault THEN [st EXCEPT !.fault = TRUE]
                 ELSE [i |-> st.i + 1,
                       circuitOrientation |-> o.circuitOrientation,
                       orientation1 |-> addArc(st.orientation1,
                                               o.circuitOrientation[st.i], st.i),
                       orientation2 |-> addArc(st.orientation2, st.i,
                                               o.circuitOrientation[st.i]),
                       fault |-> FALSE])

\* lines 1472-1478; b = [orientation1, orientation2, uncheckedVertices, fault]
RECURSIVE cyclesOfEndpoints(_, _, _, _, _, _)

cyclesOfEndpoints(adj, F, circuitOrientation, edgesBetweenCycles, count, b) ==
    IF count = 0 THEN b
    ELSE LET before == cyclesOfEndpoints(adj, F, circuitOrientation,
                                         edgesBetweenCycles, count - 1, b)
         IN  IF edgesBetweenCycles[count - 1] \in before.uncheckedVertices
             THEN orient2FactorCyclesInComplementaryOrientations(adj, F,
                      circuitOrientation, edgesBetweenCycles[count - 1], before)
             ELSE before

\* lines 1479-1483; st = [b, element]
RECURSIVE remainingCycles(_, _, _, _)

remainingCycles(adj, F, circuitOrientation, st) ==
    LET element == next(st.b.uncheckedVertices, st.element)
    IN  IF element = -1 \/ st.b.fault THEN st
        ELSE remainingCycles(adj, F, circuitOrientation,
                 [b |-> orient2FactorCyclesInComplementaryOrientations(adj, F,
                            circuitOrientation, element, st.b),
                  element |-> element])

\* lines 1421-1483 of verifyOddnessHeuristicOrientations: the two orientations
\* are built; returns [orientation1, orientation2, circuitOrientation, fault]
orientationsOfHeuristic(adj, n, circuitOrientation, F, M, edgesBetweenCycles, count) ==
    LET a == arcsBetweenCycles(n, edgesBetweenCycles, count)
        c == arcsOfCircuitsLoop(n, F, M, a.endpoints,
                 [i |-> 0, circuitOrientation |-> circuitOrientation,
                  orientation1 |-> a.orientation1,
                  orientation2 |-> a.orientation2, fault |-> FALSE])
        e == cyclesOfEndpoints(adj, F, c.circuitOrientation, edgesBetweenCycles,
                               2 * count,
                               [orientation1 |-> c.orientation1,
                                orientation2 |-> c.orientation2,
                                uncheckedVertices |-> complement(EMPTY, n),
                                fault |-> c.fault])
        r == remainingCycles(adj, F, c.circuitOrientation,
                             [b |-> e, element |-> -1]).b
    IN  IF c.fault
        THEN [orientation1 |-> c.orientation1, orientation2 |-> c.orientation2,
              circuitOrientation |-> c.circuitOrientation, fault |-> TRUE]
        ELSE [orientation1 |-> r.orientation1, orientation2 |-> r.orientation2,
              circuitOrientation |-> c.circuitOrientation, fault |-> r.fault]

-----------------------------------------------------------------------------
(* readGraph6.c: a line is the sequence of its bytes, the terminating NUL *)
(* left implicit                                                           *)

MAXVERTICES == 64

NoGraph == [v \in {} |-> {}]

\* graphString[index]; bytes are signed chars
charAt(s, index) ==
    IF index < Len(s)
    THEN (IF s[index + 1] >= 128 THEN s[index + 1] - 256 ELSE s[index + 1])
    ELSE 0

strlen(s) ==
    IF \E k \in 1 .. Len(s) : s[k] = 0
    THEN (CHOOSE k \in 1 .. Len(s) : s[k] = 0 /\ \A j \in 1 .. (k - 1) : s[j] # 0) - 1
    ELSE Len(s)

\* the index the header skip of getNumberOfVertices stops at: one past the
\* first '<'
indexAfterHeader(s) ==
    IF charAt(s, 0) = 62
    THEN (CHOOSE k \in 0 .. Len(s) :
             /\ charAt(s, k) = 60
             /\ \A j \in 0 .. (k - 1) : charAt(s, j) # 60) + 1
    ELSE 0

\* the header skip runs off the end of the string when it holds no '<'
headerSkipOverruns(s) ==
    charAt(s, 0) = 62 /\ \A k \in 0 .. Len(s) : charAt(s, k) # 60

\* number |= (graphString[index++] - 63) << i*6 over count characters
RECURSIVE concatenate(_, _, _)

concatenate(s, index, count) ==
    IF count = 0 THEN 0
    ELSE (charAt(s, index) - 63) * (2 ^ (6 * (count - 1)))
         + concatenate(s, index + 1, count - 1)

getNumberOfVertices(s) ==
    IF strlen(s) = 0 THEN -1
    ELSE IF (charAt(s, 0) < 63 \/ charAt(s, 0) > 126)
            /\ charAt(s, 0) # 62 /\ charAt(s, 0) # 38
    THEN -1
    ELSE LET index0 == indexAfterHeader(s)
             index == IF charAt(s, index0) = 38 THEN index0 + 1 ELSE index0
         IN  IF charAt(s, index) < 126 THEN charAt(s, index) - 63
             ELSE IF charAt(s, index + 1) < 126 THEN concatenate(s, index + 1, 3)
             ELSE IF charAt(s, index + 2) < 126 THEN concatenate(s, index + 2, 6)
             ELSE -1

\* the bytes of "Error: String is empty.\n"
StringIsEmptyText ==
    <<69, 114, 114, 111, 114, 58, 32, 83, 116, 114, 105, 110, 103, 32, 105, 115,
      32, 101, 109, 112, 116, 121, 46, 10>>

\* the bytes of "Error: Invalid start of graphstring.\n"
InvalidStartText ==
    <<69, 114, 114, 111, 114, 58, 32, 73, 110, 118, 97, 108, 105, 100, 32, 115,
      116, 97, 114, 116, 32, 111, 102, 32, 103, 114, 97, 112, 104, 115, 116, 114,
      105, 110, 103, 46, 10>>

\* what getNumberOfVertices writes with printf, one element per call of printf
getNumberOfVerticesPrints(s) ==
    IF strlen(s) = 0 THEN <<StringIsEmptyText>>
    ELSE IF (charAt(s, 0) < 63 \/ charAt(s, 0) > 126)
            /\ charAt(s, 0) # 62 /\ charAt(s, 0) # 38
    THEN <<InvalidStartText>>
    ELSE <<>>

\* the column of the upper triangle position p falls in (currentVertex after
\* the while loop of loadGraph)
columnOf(p) == CHOOSE v \in 1 .. (p + 1) : (v * (v - 1)) \div 2 <= p /\ p < (v * (v + 1)) \div 2

\* the bit prev() visits: bit i of the low six bits of character - 63
bitIsSet(character, i) == (((character - 63) % 64) \div (2 ^ i)) % 2 = 1

loadGraphStartIndex(s, n) ==
    (IF charAt(s, 0) = 62 THEN 10 ELSE 0) + (IF n <= 62 THEN 1 ELSE 4)

\* the index of the first '\n' or NUL at or after startIndex
loadGraphEndIndex(s, startIndex) ==
    IF startIndex >= Len(s) THEN startIndex
    ELSE CHOOSE e \in startIndex .. Len(s) :
             /\ charAt(s, e) \in {10, 0}
             /\ \A j \in startIndex .. (e - 1) : charAt(s, j) \notin {10, 0}

\* the pairs <<currentVertex, neighbour>> loadGraph adds
loadGraphPairs(s, n) ==
    LET startIndex == loadGraphStartIndex(s, n)
        endIndex == loadGraphEndIndex(s, startIndex)
    IN  {<<columnOf(5 - i + (index - startIndex) * 6),
           5 - i + (index - startIndex) * 6
             - (columnOf(5 - i + (index - startIndex) * 6)
                * (columnOf(5 - i + (index - startIndex) * 6) - 1)) \div 2>> :
            <<index, i>> \in {q \in (startIndex .. (endIndex - 1)) \X (0 .. 5) :
                                 bitIsSet(charAt(s, q[1]), q[2])}}

\* some pair lies outside adjacencyList[0 .. n-1]
loadGraphOverruns(s, n) == \E q \in loadGraphPairs(s, n) : q[1] >= n

loadGraph(s, n) ==
    IF n > MAXVERTICES THEN [ret |-> -1, adjacencyList |-> NoGraph]
    ELSE LET startIndex == loadGraphStartIndex(s, n)
             endIndex == loadGraphEndIndex(s, startIndex)
             pairs == loadGraphPairs(s, n)
         IN  [ret |-> IF charAt(s, endIndex) = 0 THEN -1 ELSE 0,
              adjacencyList |->
                  [v \in 0 .. (n - 1) |->
                      {q[2] : q \in {r \in pairs : r[1] = v}}
                      \cup {q[1] : q \in {r \in pairs : r[2] = v}}]]

-----------------------------------------------------------------------------
(* Reference notions the program is compared with *)

RECURSIVE Closure(_, _)

\* the vertices reachable from the set by following succ
Closure(succ, set) ==
    LET more == set \cup UNION {succ[u] : u \in set}
    IN  IF more = set THEN set ELSE Closure(succ, more)

\* there is a directed path from u to v (of length 0 when u = v)
HasPath(g, u, v) == v \in Closure(g.adjacencyList, {u})

EveryPairConnected(g) ==
    \A u \in 0 .. (g.numberOfVertices - 1) :
        \A v \in 0 .. (g.numberOfVertices - 1) : HasPath(g, u, v)

Arcs(g) == {a \in (DOMAIN g.adjacencyList) \X (DOMAIN g.adjacencyList) :
               a[2] \in g.adjacencyList[a[1]]}

\* the digraph without the arc u -> v
WithoutArc(g, u, v) == [g EXCEPT !.adjacencyList[u] = @ \ {v},
                                 !.reverseAdjacencyList[v] = @ \ {u}]

\* the edge numbers of the arcs whose removal leaves the digraph strongly connected
DeletableArcs(g, en) ==
    {en[a[1]][a[2]] : a \in {b \in Arcs(g) : EveryPairConnected(WithoutArc(g, b[1], b[2]))}}

\* every arc reversed
reverse(g) == [g EXCEPT !.adjacencyList = g.reverseAdjacencyList,
                        !.reverseAdjacencyList = g.adjacencyList]

\* no two vertices are joined in both directions, no loops
IsOrientation(g) ==
    \A u \in DOMAIN g.adjacencyList : \A v \in g.adjacencyList[u] :
        u \notin g.adjacencyList[v]

UnderlyingGraph(g) ==
    [u \in DOMAIN g.adjacencyList |->
        g.adjacencyList[u] \cup g.reverseAdjacencyList[u]]

SumOfOutDegrees(g) ==
    LET RECURSIVE Sum(_)
        Sum(i) == IF i >= g.numberOfVertices THEN 0
                  ELSE Cardinality(g.adjacencyList[i]) + Sum(i + 1)
    IN  Sum(0)

InOutConsistent(g) ==
    \A u \in DOMAIN g.adjacencyList : \A v \in DOMAIN g.adjacencyList :
        (v \in g.adjacencyList[u]) <=> (u \in g.reverseAdjacencyList[v])

\* strongly connected: everything is reachable from vertex 0 and vertex 0
\* from everything
IsStrong(g) ==
    /\ Closure(g.adjacencyList, {0}) = 0 .. (g.numberOfVertices - 1)
    /\ Closure(g.reverseAdjacencyList, {0}) = 0 .. (g.numberOfVertices - 1)

\* the edges of the graph as pairs u < v
EdgeSet(adj) == {e \in (DOMAIN adj) \X (DOMAIN adj) : e[1] < e[2] /\ e[2] \in adj[e[1]]}

\* the orientation that directs the edges of forward upwards, the others
\* downwards
OrientationOf(adj, n, forward) ==
    [numberOfVertices |-> n,
     adjacencyList |->
         [u \in 0 .. (n - 1) |->
             {v \in adj[u] : IF u < v THEN <<u, v>> \in forward
                                      ELSE <<v, u>> \notin forward}],
     reverseAdjacencyList |->
         [u \in 0 .. (n - 1) |->
             {v \in adj[u] : IF u < v THEN <<u, v>> \notin forward
                                      ELSE <<v, u>> \in forward}],
     numberOfArcs |-> Cardinality(EdgeSet(adj))]

StrongOrientations(adj, n) ==
    {g \in {OrientationOf(adj, n, forward) : forward \in SUBSET EdgeSet(adj)} :
        IsStrong(g)}

\* g orients every edge of adj in exactly one direction and has no other arc
IsOrientationOf(g, adj) ==
    /\ DOMAIN g.adjacencyList = DOMAIN adj
    /\ \A u \in DOMAIN adj : g.adjacencyList[u] \subseteq adj[u]
    /\ \A e \in EdgeSet(adj) :
          (e[2] \in g.adjacencyList[e[1]]) # (e[1] \in g.adjacencyList[e[2]])

\* the edge numbers of the arcs of g whose removal leaves g strongly connected
StrongDeletable(g, en) ==
    {en[a[1]][a[2]] : a \in {b \in Arcs(g) : IsStrong(WithoutArc(g, b[1], b[2]))}}

AllEdgeNumbers(adj) == 0 .. (Cardinality(EdgeSet(adj)) - 1)

\* the deletable sets of all strong orientations
StrongDeletableSets(adj, n, en) ==
    {StrongDeletable(g, en) : g \in StrongOrientations(adj, n)}

\* two strong orientations whose deletable sets cover the edges exist
HasComplementaryPair(sets, adj) ==
    \E s1 \in sets : \E s2 \in sets : (s1 \cup s2) = AllEdgeNumbers(adj)

\* a cycle runs inside the vertex set S
HasCycleWithin(adj, S) ==
    \E T \in SUBSET S :
        /\ T # {}
        /\ \A v \in T : Cardinality(adj[v] \cap T) >= 2

\* the edges with one end in S and the other outside it
EdgeCut(adj, S) == {e \in EdgeSet(adj) : (e[1] \in S) # (e[2] \in S)}

\* no set of fewer than four edges separates two cycles of the graph
CyclicallyFourEdgeConnected(adj) ==
    \A S \in SUBSET (DOMAIN adj) :
        (HasCycleWithin(adj, S) /\ HasCycleWithin(adj, (DOMAIN adj) \ S))
            => Cardinality(EdgeCut(adj, S)) >= 4

-----------------------------------------------------------------------------
(* SpecDigraph: arbitrary sequences of addArc / removeArc from emptyGraph *)

NoValue == -1

\* struct options as main initialises it
defaultOptions ==
    [bruteForceFlag |-> FALSE, complementFlag |-> FALSE,
     exhaustiveCheckFlag |-> TRUE, doublecheckFlag |-> FALSE,
     oddCyclesHeuristicFlag |-> TRUE, printFlag |-> FALSE,
     singleGraphFlag |-> FALSE,
     modulo |-> 1, remainder |-> 0, sizeOfArray |-> 100000]

\* struct counters numberOf = {0}
zeroCounters ==
    [totalOrientationsGenerated |-> 0, generatedOrientations |-> 0,
     orientationsGivingSubset |-> 0, orientationsGivingSuperset |-> 0,
     complementaryBitsets |-> 0, storedBitsets |-> 0, emptyBitsetsStored |-> 0,
     mostGeneratedOrientations |-> 0, mostStoredBitsets |-> 0,
     graphsSatisfyingOddnessCondition |-> 0,
     graphsNotSatisfyingOddnessCondition |-> 0,
     graphsSatisfyingFirstOddness |-> 0, graphsSatisfyingSecondOddness |-> 0]

\* the heuristic before it has run
noHeuristic ==
    [F |-> <<>>, M |-> <<>>, oddCycles |-> <<>>, u |-> NoValue,
     circuitOrientation |-> <<>>, edgesBetweenCycles |-> <<>>,
     configuration |-> 0]

noVerification ==
    [orientation1 |-> emptyGraph(0), orientation2 |-> emptyGraph(0),
     deletableEdges1 |-> EMPTY, deletableEdges2 |-> EMPTY, error |-> ""]

\* no run of the program came before this one
noRun == [frankNumber |-> NoValue, adjacencyList |-> NoGraph, stdout |-> <<>>]

InitHeuristicIdle ==
    /\ matchFrames = <<>>
    /\ matchReturned = NoValue
    /\ heuristic = noHeuristic
    /\ verified = noVerification
    /\ exitStatus = NoValue
    /\ previousRun = noRun
    /\ offered = {}

\* the search and the driver before anything has run
InitSearchIdle ==
    /\ InitHeuristicIdle
    /\ options = defaultOptions
    /\ numberOf = zeroCounters
    /\ frames = <<>>
    /\ returned = NoValue
    /\ bitsetsOfDeletableEdges = initArray(defaultOptions.sizeOfArray)
    /\ frankNumber = 0
    /\ leafOrientation = emptyGraph(0)
    /\ compFrames = <<>>
    /\ compOrientation = emptyGraph(0)
    /\ hasCompOrientation = FALSE

InitIdle ==
    /\ InitSearchIdle
    /\ stdin = <<>>
    /\ input = <<>>
    /\ graphString = <<>>
    /\ totalGraphs = 0
    /\ counter = 0
    /\ skippedGraphs = 0
    /\ passedGraphs = 0
    /\ stdout = <<>>
    /\ strongDeletableSets = {}

InitDigraph ==
    /\ pc = "digraph"
    /\ numberOfVertices \in 1 .. (MaxV - 1)
    /\ orientation = emptyGraph(numberOfVertices)
    /\ adjacencyList = NoGraph
    /\ edgeNumbering = NoGraph
    /\ lastOp = "emptyGraph"
    /\ callsValid = TRUE
    /\ stronglyConnected = FALSE
    /\ deletableEdges = EMPTY
    /\ reverseDeletableEdges = EMPTY
    /\ InitIdle

DoAddArc(i, j) ==
    /\ pc = "digraph"
    /\ orientation.numberOfArcs < MaxArcCount
    /\ orientation' = addArc(orientation, i, j)
    /\ callsValid' = (callsValid /\ j \notin orientation.adjacencyList[i])
    /\ lastOp' = "addArc"
    /\ UNCHANGED <<pc, numberOfVertices, adjacencyList, edgeNumbering,
                   stronglyConnected, deletableEdges, reverseDeletableEdges>>
    /\ UNCHANGED <<searchVars, driverVars, strongDeletableSets, heuristicVars, offered>>

DoRemoveArc(i, j) ==
    /\ pc = "digraph"
    /\ orientation.numberOfArcs > -MaxArcCount
    /\ orientation' = removeArc(orientation, i, j)
    /\ callsValid' = (callsValid /\ j \in orientation.adjacencyList[i])
    /\ lastOp' = "removeArc"
    /\ UNCHANGED <<pc, numberOfVertices, adjacencyList, edgeNumbering,
                   stronglyConnected, deletableEdges, reverseDeletableEdges>>
    /\ UNCHANGED <<searchVars, driverVars, strongDeletableSets, heuristicVars, offered>>

NextDigraph ==
    \/ \E i \in 0 .. (numberOfVertices - 1), j \in 0 .. (numberOfVertices - 1) : DoAddArc(i, j)
    \/ \E i \in 0 .. (numberOfVertices - 1), j \in 0 .. (numberOfVertices - 1) : DoRemoveArc(i, j)

SpecDigraph == InitDigraph /\ [][NextDigraph]_vars

-----------------------------------------------------------------------------
(* SpecSC: digraphs built arc by arc, then handed to isStronglyConnected and, *)
(* when they are strong orientations, to getDeletableEdges                   *)

InitSC ==
    /\ pc = "build"
    /\ numberOfVertices \in 1 .. MaxV
    /\ orientation = emptyGraph(numberOfVertices)
    /\ adjacencyList = NoGraph
    /\ edgeNumbering = NoGraph
    /\ lastOp = "emptyGraph"
    /\ callsValid = TRUE
    /\ stronglyConnected = FALSE
    /\ deletableEdges = EMPTY
    /\ reverseDeletableEdges = EMPTY
    /\ InitIdle

BuildArc(i, j) ==
    /\ pc = "build"
    /\ i # j
    /\ j \notin orientation.adjacencyList[i]
    /\ orientation' = addArc(orientation, i, j)
    /\ lastOp' = "addArc"
    /\ UNCHANGED <<pc, numberOfVertices, adjacencyList, edgeNumbering, callsValid,
                   stronglyConnected, deletableEdges, reverseDeletableEdges>>
    /\ UNCHANGED <<searchVars, driverVars, strongDeletableSets, heuristicVars, offered>>

ApplyIsStronglyConnected ==
    /\ pc = "build"
    /\ stronglyConnected' = isStronglyConnected(orientation)
    /\ pc' = "tested"
    /\ lastOp' = "isStronglyConnected"
    /\ UNCHANGED <<numberOfVertices, adjacencyList, edgeNumbering, orientation,
                   callsValid, deletableEdges, reverseDeletableEdges>>
    /\ UNCHANGED <<searchVars, driverVars, strongDeletableSets, heuristicVars, offered>>

ApplyGetDeletableEdges ==
    /\ pc = "tested"
    /\ stronglyConnected
    /\ IsOrientation(orientation)
    /\ LET adj == UnderlyingGraph(orientation)
           en == numberEdges(adj, numberOfVertices)
           r == getDeletableEdges(orientation, numberOfVertices, en)
           rr == getDeletableEdges(reverse(orientation), numberOfVertices, en)
       IN  /\ adjacencyList' = adj
           /\ edgeNumbering' = en
           /\ deletableEdges' = r.deletableEdges
           /\ orientation' = r.orientation
           /\ reverseDeletableEdges' = rr.deletableEdges
    /\ pc' = "deleted"
    /\ lastOp' = "getDeletableEdges"
    /\ UNCHANGED <<numberOfVertices, callsValid, stronglyConnected>>
    /\ UNCHANGED <<searchVars, driverVars, strongDeletableSets, heuristicVars, offered>>

NextSC ==
    \/ \E i \in 0 .. (numberOfVertices - 1), j \in 0 .. (numberOfVertices - 1) : BuildArc(i, j)
    \/ ApplyIsStronglyConnected
    \/ ApplyGetDeletableEdges

SpecSC == InitSC /\ [][NextSC]_vars

-----------------------------------------------------------------------------
(* The driver and the orientation search, one step per call or return of    *)
(* generateAllOrientations                                                   *)

pop(stack) == SubSeq(stack, 1, Len(stack) - 1)

frame(endpoint1, endpoint2, at) ==
    [endpoint1 |-> endpoint1, endpoint2 |-> endpoint2, at |-> at]

\* st = [frames, orientation, returned]: the activation records of
\* generateAllOrientations (innermost last), the orientation, and the value the
\* call that has just ended returned (NoValue while a call is being entered)

\* orientOtherWay without the test of the degrees
orientOtherWayUnpruned(adj, st, o, f) ==
    LET o2 == addArc(o, f.endpoint2, f.endpoint1)
    IN  [frames |-> Append(Append(pop(st.frames), [f EXCEPT !.at = "second"]),
                           frame(f.endpoint1,
                                 next(adj[f.endpoint1], f.endpoint2), "call")),
         orientation |-> o2,
         returned |-> NoValue]

\* orientOtherWay with the first edge (0, min adj[0]) left in its first
\* direction
orientOtherWayButFirstEdge(adj, st, o, f) ==
    LET o2 == addArc(o, f.endpoint2, f.endpoint1)
    IN  IF /\ ~(f.endpoint1 = 0 /\ f.endpoint2 = next(adj[0], 0))
           /\ size(o2.reverseAdjacencyList[f.endpoint1]) # 3
           /\ size(o2.adjacencyList[f.endpoint2]) # 3
        THEN [frames |-> Append(Append(pop(st.frames), [f EXCEPT !.at = "second"]),
                                frame(f.endpoint1,
                                      next(adj[f.endpoint1], f.endpoint2), "call")),
              orientation |-> o2,
              returned |-> NoValue]
        ELSE [frames |-> pop(st.frames),
              orientation |-> removeArc(o2, f.endpoint2, f.endpoint1),
              returned |-> 0]

\* the second half of generateAllOrientations (lines 829-845): orient the edge
\* the other way, recurse unless a degree reaches 3, else return 0
orientOtherWay(adj, st, o, f) ==
    LET o2 == addArc(o, f.endpoint2, f.endpoint1)
    IN  IF /\ size(o2.reverseAdjacencyList[f.endpoint1]) # 3
           /\ size(o2.adjacencyList[f.endpoint2]) # 3
        THEN [frames |-> Append(Append(pop(st.frames), [f EXCEPT !.at = "second"]),
                                frame(f.endpoint1,
                                      next(adj[f.endpoint1], f.endpoint2), "call")),
              orientation |-> o2,
              returned |-> NoValue]
        ELSE [frames |-> pop(st.frames),
              orientation |-> removeArc(o2, f.endpoint2, f.endpoint1),
              returned |-> 0]

\* the top activation record is a call with all edges oriented (line 759)
atLeaf(n, st) ==
    /\ st.frames # <<>>
    /\ st.frames[Len(st.frames)].at = "call"
    /\ st.frames[Len(st.frames)].endpoint2 = -1
    /\ st.frames[Len(st.frames)].endpoint1 = n - 1

\* one call or one return of generateAllOrientations away from the leaves
genStep(adj, n, st) ==
    LET f == st.frames[Len(st.frames)]
    IN  IF f.at = "call" /\ f.endpoint2 = -1
        THEN \* lines 750-754: on to the next vertex
             [st EXCEPT !.frames =
                 Append(Append(pop(st.frames), [f EXCEPT !.at = "advance"]),
                        frame(f.endpoint1 + 1,
                              next(adj[f.endpoint1 + 1], f.endpoint1 + 1), "call"))]
        ELSE IF f.at = "call"
        THEN \* lines 816-822
             LET o1 == addArc(st.orientation, f.endpoint1, f.endpoint2)
             IN  IF /\ size(o1.adjacencyList[f.endpoint1]) # 3
                    /\ size(o1.reverseAdjacencyList[f.endpoint2]) # 3
                 THEN [frames |-> Append(Append(pop(st.frames),
                                                [f EXCEPT !.at = "first"]),
                                         frame(f.endpoint1,
                                               next(adj[f.endpoint1], f.endpoint2),
                                               "call")),
                       orientation |-> o1,
                       returned |-> NoValue]
                 ELSE orientOtherWay(adj, st,
                          removeArc(o1, f.endpoint1, f.endpoint2), f)
        ELSE IF f.at = "advance"
        THEN \* line 755
             [st EXCEPT !.frames = pop(st.frames)]
        ELSE IF f.at = "first"
        THEN \* lines 823-836
             LET o1 == removeArc(st.orientation, f.endpoint1, f.endpoint2)
             IN  IF st.returned # 0
                 THEN [st EXCEPT !.frames = pop(st.frames), !.orientation = o1]
                 ELSE orientOtherWay(adj, st, o1, f)
        ELSE \* lines 837-845
             [st EXCEPT !.frames = pop(st.frames),
                        !.orientation = removeArc(st.orientation,
                                                  f.endpoint2, f.endpoint1)]

RECURSIVE runSteps(_, _, _, _), runToLeaf(_, _, _)

\* at most 2^k calls and returns, stopping at a leaf or at the return of the
\* outermost call
runSteps(adj, n, st, k) ==
    IF st.frames = <<>> \/ atLeaf(n, st) THEN st
    ELSE IF k = 0 THEN genStep(adj, n, st)
    ELSE runSteps(adj, n, runSteps(adj, n, st, k - 1), k - 1)

\* the calls and returns up to the next leaf, or up to the return of the
\* outermost call
runToLeaf(adj, n, st) ==
    IF st.frames = <<>> \/ atLeaf(n, st) THEN st
    ELSE runToLeaf(adj, n, runSteps(adj, n, st, RunLog))

\* the leaf returns ret: the returns and calls that lead from it to the next
\* leaf or out of the outermost call
LeafReturns(o, ret) ==
    \E st \in {runToLeaf(adjacencyList, numberOfVertices,
                         [frames |-> pop(frames), orientation |-> o,
                          returned |-> ret])} :
        /\ frames' = st.frames
        /\ orientation' = st.orientation
        /\ returned' = st.returned
        /\ pc' = "search"

\* GenLeaf with the count taken after the test of strong connectivity
GenLeafCountingStrong ==
    /\ pc = "search"
    /\ atLeaf(numberOfVertices, [frames |-> frames])
    /\ \E strong \in {isStronglyConnected(orientation)} :
          /\ stronglyConnected' = strong
          /\ numberOf' = IF strong
                         THEN [numberOf EXCEPT !.totalOrientationsGenerated = @ + 1]
                         ELSE numberOf
          /\ IF /\ strong
                /\ ~(/\ options.singleGraphFlag
                     /\ (numberOf.totalOrientationsGenerated + 1) % options.modulo
                            # options.remainder)
             THEN /\ pc' = "strong"
                  /\ UNCHANGED <<frames, orientation, returned>>
             ELSE LeafReturns(orientation, 0)
    /\ UNCHANGED <<numberOfVertices, adjacencyList, edgeNumbering, lastOp,
                   callsValid, deletableEdges, reverseDeletableEdges, options,
                   bitsetsOfDeletableEdges, frankNumber, leafOrientation,
                   compFrames, compOrientation, hasCompOrientation, driverVars,
                   strongDeletableSets, heuristicVars, offered>>

\* lines 759-773: all edges are oriented; the orientation is counted, then
\* dropped unless it is in the shard and strongly connected
GenLeaf ==
    /\ pc = "search"
    /\ atLeaf(numberOfVertices, [frames |-> frames])
    /\ numberOf' = [numberOf EXCEPT !.totalOrientationsGenerated = @ + 1]
    /\ IF /\ options.singleGraphFlag
          /\ (numberOf.totalOrientationsGenerated + 1) % options.modulo
                 # options.remainder
       THEN /\ LeafReturns(orientation, 0)
            /\ UNCHANGED stronglyConnected
       ELSE \E strong \in {isStronglyConnected(orientation)} :
                /\ stronglyConnected' = strong
                /\ IF strong
                   THEN /\ pc' = "strong"
                        /\ UNCHANGED <<frames, orientation, returned>>
                   ELSE LeafReturns(orientation, 0)
    /\ UNCHANGED <<numberOfVertices, adjacencyList, edgeNumbering, lastOp,
                   callsValid, deletableEdges, reverseDeletableEdges, options,
                   bitsetsOfDeletableEdges, frankNumber, leafOrientation,
                   compFrames, compOrientation, hasCompOrientation, driverVars,
                   strongDeletableSets, heuristicVars, offered>>

\* lines 775-812 for a strongly connected orientation, up to the call of
\* hasComplementaryOrientation
LeafDeletable ==
    /\ pc = "strong"
    /\ \E d \in {getDeletableEdges(orientation, numberOfVertices, edgeNumbering)} :
          /\ deletableEdges' = d.deletableEdges
          /\ IF someVertexHasNoDeletableEdge(adjacencyList, numberOfVertices,
                                             d.deletableEdges, edgeNumbering)
             THEN /\ LeafReturns(d.orientation, 0)
                  /\ UNCHANGED <<numberOf, bitsetsOfDeletableEdges,
                                 leafOrientation, offered>>
             ELSE /\ leafOrientation' = d.orientation
                  /\ IF ~options.bruteForceFlag
                     THEN /\ numberOf' = [numberOf EXCEPT
                                             !.generatedOrientations = @ + 1]
                          /\ orientation' = d.orientation
                          /\ pc' = "deleted"
                          /\ UNCHANGED <<frames, returned,
                                         bitsetsOfDeletableEdges, offered>>
                     ELSE \E g \in {getIntermediateFrankNumber(
                                       [numberOf EXCEPT
                                           !.generatedOrientations = @ + 1],
                                       numberOfVertices, bitsetsOfDeletableEdges,
                                       d.deletableEdges)} :
                              /\ numberOf' = g.cnt
                              /\ bitsetsOfDeletableEdges' = g.pool
                              /\ offered' = offered \cup {d.deletableEdges}
                              /\ LeafReturns(d.orientation, g.ret)
    /\ UNCHANGED <<numberOfVertices, adjacencyList, edgeNumbering, lastOp,
                   callsValid, stronglyConnected, reverseDeletableEdges, options,
                   frankNumber, compFrames, compOrientation, hasCompOrientation,
                   driverVars, strongDeletableSets, heuristicVars>>

\* hasComplementaryOrientation up to its call of canCompleteCompOrientation,
\* for an orientation every vertex of which has a deletable edge (lines
\* 778-791)
BeginComplement ==
    /\ pc = "deleted"
    /\ ~someVertexHasNoDeletableEdge(adjacencyList, numberOfVertices,
                                     deletableEdges, edgeNumbering)
    /\ \E st \in {hasComplementaryOrientation(adjacencyList, numberOfVertices,
                                              deletableEdges, edgeNumbering)} :
          /\ compFrames' = st.frames
          /\ compOrientation' = st.orientation
          /\ hasCompOrientation' = st.returned
          /\ pc' = IF st.frames = <<>> THEN "solved" ELSE "complement"
    /\ leafOrientation' = orientation
    /\ lastOp' = "hasComplementaryOrientation"
    /\ UNCHANGED <<numberOfVertices, adjacencyList, edgeNumbering, orientation,
                   callsValid, stronglyConnected, deletableEdges,
                   reverseDeletableEdges, options, numberOf, frames, returned,
                   bitsetsOfDeletableEdges, frankNumber, driverVars,
                   strongDeletableSets, heuristicVars, offered>>

\* one call of canCompleteCompOrientation is entered or gone on with
CompleteStep ==
    /\ pc = "complement"
    /\ \E st \in {canCompleteCompOrientationStep(adjacencyList, numberOfVertices,
                      [frames |-> compFrames, orientation |-> compOrientation,
                       returned |-> hasCompOrientation],
                      deletableEdges, edgeNumbering)} :
          /\ compFrames' = st.frames
          /\ compOrientation' = st.orientation
          /\ hasCompOrientation' = st.returned
          /\ pc' = IF st.frames = <<>> THEN "solved" ELSE "complement"
    /\ UNCHANGED <<digraphVars, options, numberOf, frames, returned,
                   bitsetsOfDeletableEdges, frankNumber, leafOrientation,
                   driverVars, strongDeletableSets, heuristicVars, offered>>

\* lines 797-806: the leaf returns 2 when hasComplementaryOrientation
\* returned true, else 0
LeafSolved ==
    /\ pc = "solved"
    /\ frames # <<>>
    /\ LeafReturns(orientation, IF hasCompOrientation THEN 2 ELSE 0)
    /\ UNCHANGED <<numberOfVertices, adjacencyList, edgeNumbering, lastOp,
                   callsValid, stronglyConnected, deletableEdges,
                   reverseDeletableEdges, options, numberOf,
                   bitsetsOfDeletableEdges, frankNumber, leafOrientation,
                   compFrames, compOrientation, hasCompOrientation, driverVars,
                   strongDeletableSets, heuristicVars, offered>>

\* the test of line 1657 passing from the third line on only
breaksOnThirdGraph(opts, total) == opts.singleGraphFlag /\ total >= 3

\* with -s the loop is left when a second line has been read: line 1657
breaksOnSecondGraph(opts, total) == opts.singleGraphFlag /\ total >= 2

\* a variant of notInClass that takes the count of the lines read, not the
\* count less one
notInClassCountingFromOne(opts, total) ==
    ~opts.singleGraphFlag /\ total % opts.modulo # opts.remainder

\* lines 1665-1666, total being totalGraphs after line 1651
notInClass(opts, total) ==
    ~opts.singleGraphFlag /\ (total - 1) % opts.modulo # opts.remainder

\* lines 1670-1696: the line is handed on, not skipped
\* loadGraph writes outside adjacencyList[0 .. n-1]: the array has a negative
\* bound or a set bit lies beyond column n-1; the behaviour is undefined
loadGraphUndefined(s, n) == n < 0 \/ loadGraphOverruns(s, n)

\* accepted with a test of the degrees added
acceptedIfCubic(line) ==
    /\ getNumberOfVertices(line) # -1
    /\ getNumberOfVertices(line) <= MAXVERTICES
    /\ (getNumberOfVertices(line) * 3) \div 2 <= MAXVERTICES
    /\ loadGraph(line, getNumberOfVertices(line)).ret # -1
    /\ \A v \in DOMAIN loadGraph(line, getNumberOfVertices(line)).adjacencyList :
           size(loadGraph(line, getNumberOfVertices(line)).adjacencyList[v]) = 3

accepted(line) ==
    /\ getNumberOfVertices(line) # -1
    /\ getNumberOfVertices(line) <= MAXVERTICES
    /\ (getNumberOfVertices(line) * 3) \div 2 <= MAXVERTICES
    /\ loadGraph(line, getNumberOfVertices(line)).ret # -1

\* the head of the getline loop: lines 1650-1697 and 1709
GetLine ==
    /\ pc = "getline"
    /\ stdin # <<>>
    /\ graphString' = Head(stdin)
    /\ stdin' = Tail(stdin)
    /\ numberOf' = [numberOf EXCEPT !.generatedOrientations = 0,
                                    !.orientationsGivingSubset = 0,
                                    !.complementaryBitsets = 0,
                                    !.emptyBitsetsStored = 0]
    /\ LET line == Head(stdin)
           n == getNumberOfVertices(line)
           g == loadGraph(line, n)
       IN  IF breaksOnSecondGraph(options, totalGraphs + 1)
           THEN \* warning, totalGraphs--, break
                /\ pc' = "finished"
                /\ UNCHANGED <<totalGraphs, skippedGraphs, counter, stdout,
                               numberOfVertices, adjacencyList, frankNumber>>
           ELSE IF notInClass(options, totalGraphs + 1)
           THEN /\ pc' = "getline"
                /\ totalGraphs' = totalGraphs + 1
                /\ UNCHANGED <<skippedGraphs, counter, stdout,
                               numberOfVertices, adjacencyList, frankNumber>>
           ELSE IF ~accepted(line)
           THEN /\ pc' = "getline"
                /\ totalGraphs' = totalGraphs + 1
                /\ skippedGraphs' = skippedGraphs + 1
                /\ stdout' = stdout \o getNumberOfVerticesPrints(line)
                /\ UNCHANGED <<counter, numberOfVertices, adjacencyList,
                               frankNumber>>
           ELSE \* out-of-bounds writes of loadGraph: the run goes on with
                \* the pairs inside the array or it stops
                /\ pc' \in {IF options.oddCyclesHeuristicFlag
                             THEN "loaded" ELSE "checked"}
                            \cup (IF loadGraphUndefined(line, n)
                                  THEN {"fault"} ELSE {})
                /\ totalGraphs' = totalGraphs + 1
                /\ counter' = counter + 1
                /\ numberOfVertices' = n
                /\ adjacencyList' = g.adjacencyList
                /\ frankNumber' = 0
                /\ UNCHANGED <<skippedGraphs, stdout>>
    /\ UNCHANGED <<edgeNumbering, orientation, lastOp, callsValid,
                   stronglyConnected, deletableEdges, reverseDeletableEdges,
                   options, frames, returned, bitsetsOfDeletableEdges,
                   leafOrientation, compFrames, compOrientation, hasCompOrientation,
                   input, passedGraphs, strongDeletableSets, heuristicVars, offered>>

\* getline returns -1: lines 1771-1800
Finish ==
    /\ pc = "getline"
    /\ stdin = <<>>
    /\ pc' = "finished"
    /\ UNCHANGED <<digraphVars, searchVars, driverVars, strongDeletableSets, heuristicVars, offered>>

\* findFrankNumber up to the first leaf of generateAllOrientations: lines
\* 1726-1727 and 850-863
BeginExact ==
    /\ pc = "checked"
    /\ options.exhaustiveCheckFlag
    /\ frankNumber = 0
    /\ bitsetsOfDeletableEdges' = initArray(options.sizeOfArray)
    /\ offered' = {}
    /\ edgeNumbering' = numberEdges(adjacencyList, numberOfVertices)
    /\ LET st == runToLeaf(adjacencyList, numberOfVertices,
                           [frames |-> <<frame(-1, -1, "call")>>,
                            orientation |-> emptyGraph(numberOfVertices),
                            returned |-> NoValue])
       IN  /\ orientation' = st.orientation
           /\ frames' = st.frames
           /\ returned' = st.returned
    /\ pc' = "search"
    /\ UNCHANGED <<numberOfVertices, adjacencyList, lastOp, callsValid,
                   stronglyConnected, deletableEdges, reverseDeletableEdges,
                   options, numberOf, frankNumber, leafOrientation,
                   compFrames, compOrientation, hasCompOrientation, driverVars,
                   strongDeletableSets, heuristicVars>>

\* the number of EMPTY slots of the pool
emptySlots(a) == Cardinality({i \in 1 .. a.used : a.array[i] = EMPTY})

\* findFrankNumber after generateAllOrientations has returned: lines 861-900
EndExact ==
    /\ pc = "search"
    /\ frames = <<>>
    /\ returned # NoValue
    /\ frankNumber' = returned
    /\ returned' = NoValue
    /\ IF options.bruteForceFlag
       THEN /\ numberOf' = [numberOf EXCEPT
                   !.storedBitsets = bitsetsOfDeletableEdges.used,
                   !.emptyBitsetsStored = @ + emptySlots(bitsetsOfDeletableEdges)]
            /\ options' = [options EXCEPT !.sizeOfArray =
                   IF bitsetsOfDeletableEdges.used > @
                   THEN bitsetsOfDeletableEdges.size ELSE @]
       ELSE UNCHANGED <<numberOf, options>>
    /\ pc' = "classified"
    /\ UNCHANGED <<digraphVars, frames, bitsetsOfDeletableEdges,
                   leafOrientation, compFrames, compOrientation, hasCompOrientation,
                   driverVars, strongDeletableSets, heuristicVars, offered>>

\* a variant of Emit whose output predicate does not read complementFlag
EmitIgnoringComplement ==
    /\ \/ pc = "classified"
       \/ pc = "checked" /\ ~(options.exhaustiveCheckFlag /\ frankNumber = 0)
    /\ LET emitted == frankNumber = 0
       IN  /\ stdout' = IF emitted THEN Append(stdout, graphString) ELSE stdout
           /\ passedGraphs' = IF emitted THEN passedGraphs + 1 ELSE passedGraphs
    /\ numberOf' = [numberOf EXCEPT
           !.mostGeneratedOrientations =
               IF @ < numberOf.generatedOrientations
               THEN numberOf.generatedOrientations ELSE @,
           !.mostStoredBitsets =
               IF @ < numberOf.storedBitsets THEN numberOf.storedBitsets ELSE @]
    /\ pc' = "getline"
    /\ UNCHANGED <<digraphVars, options, frames, returned,
                   bitsetsOfDeletableEdges, frankNumber, leafOrientation,
                   compFrames, compOrientation, hasCompOrientation, stdin, input,
                   graphString,
                   totalGraphs, counter, skippedGraphs, strongDeletableSets, heuristicVars, offered>>

\* lines 1743-1768: the output predicate and the two maxima
Emit ==
    /\ \/ pc = "classified"
       \/ pc = "checked" /\ ~(options.exhaustiveCheckFlag /\ frankNumber = 0)
    /\ LET emitted == \/ frankNumber = 0 /\ ~options.complementFlag
                      \/ frankNumber = 2 /\ options.complementFlag
       IN  /\ stdout' = IF emitted THEN Append(stdout, graphString) ELSE stdout
           /\ passedGraphs' = IF emitted THEN passedGraphs + 1 ELSE passedGraphs
    /\ numberOf' = [numberOf EXCEPT
           !.mostGeneratedOrientations =
               IF @ < numberOf.generatedOrientations
               THEN numberOf.generatedOrientations ELSE @,
           !.mostStoredBitsets =
               IF @ < numberOf.storedBitsets THEN numberOf.storedBitsets ELSE @]
    /\ pc' = "getline"
    /\ UNCHANGED <<digraphVars, options, frames, returned,
                   bitsetsOfDeletableEdges, frankNumber, leafOrientation,
                   compFrames, compOrientation, hasCompOrientation, stdin, input,
                   graphString,
                   totalGraphs, counter, skippedGraphs, strongDeletableSets, heuristicVars, offered>>

-----------------------------------------------------------------------------
(* The heuristic in the driver: one step per perfect matching, per vertex u *)
(* of the first odd cycle, and per half of the double check                *)

\* the call that holds a perfect matching returns ret: the returns and calls
\* that lead from it to the next perfect matching or out of the outermost call
MatchingReturns(adj, ret) ==
    \E st \in {runToPerfectMatching(adj,
                  [frames |-> SubSeq(matchFrames, 1, Len(matchFrames) - 1),
                   F |-> heuristic.F, returned |-> ret])} :
        /\ matchFrames' = st.frames
        /\ matchReturned' = st.returned
        /\ heuristic' = [heuristic EXCEPT !.F = st.F]
        /\ pc' = "matching"

\* lines 1711-1713 and 1209-1210: hasSufficientCondition is called with every
\* vertex remaining; F is not initialised, none of its entries is read before
\* it is written
BeginHeuristic ==
    /\ pc = "loaded"
    /\ \E st \in {runToPerfectMatching(adjacencyList,
                     [frames |-> <<matchFrame(complement(EMPTY, numberOfVertices))>>,
                      F |-> [i \in 0 .. (numberOfVertices - 1) |-> NoValue],
                      returned |-> NoValue])} :
          /\ matchFrames' = st.frames
          /\ matchReturned' = st.returned
          /\ heuristic' = [noHeuristic EXCEPT !.F = st.F]
    /\ pc' = "matching"
    /\ UNCHANGED <<digraphVars, searchVars, driverVars, strongDeletableSets,
                   verified, exitStatus, previousRun, offered>>

\* lines 1212-1217 and 1356-1358: the 2-factor left by the perfect matching is
\* searched for its odd cycles
TwoOddCycles ==
    /\ pc = "matching"
    /\ atPerfectMatching([frames |-> matchFrames, returned |-> matchReturned])
    /\ \E c \in {containsTwoOddCycles(adjacencyList, numberOfVertices, heuristic.F)} :
          IF c.fault
          THEN /\ pc' = "fault"
               /\ UNCHANGED <<matchFrames, matchReturned, heuristic>>
          ELSE IF c.ret
          THEN /\ heuristic' = [heuristic EXCEPT !.M = c.M,
                                                 !.oddCycles = c.oddCycles,
                                                 !.u = NoValue,
                                                 !.configuration = 0]
               /\ pc' = "cycles"
               /\ UNCHANGED <<matchFrames, matchReturned>>
          ELSE MatchingReturns(adjacencyList, 0)
    /\ UNCHANGED <<digraphVars, searchVars, driverVars, strongDeletableSets,
                   verified, exitStatus, previousRun, offered>>

\* lines 1220-1352: one turn of the forEach over the first odd cycle; when a
\* configuration is found the graph is counted and, without -d, the call
\* returns true
Configuration ==
    /\ pc = "cycles"
    /\ \E u \in {next(heuristic.oddCycles[0].cycleElements, heuristic.u)} :
          IF u = -1
          THEN /\ MatchingReturns(adjacencyList, 0)
               /\ UNCHANGED <<adjacencyList, numberOf>>
          ELSE \E t \in {configurationAt(adjacencyList, numberOfVertices,
                                         heuristic.F, heuristic.oddCycles,
                                         heuristic.M, u)} :
                  /\ adjacencyList' = t.adjacencyList
                  /\ IF t.fault
                     THEN /\ pc' = "fault"
                          /\ UNCHANGED <<matchFrames, matchReturned, heuristic,
                                         numberOf>>
                     ELSE IF t.configuration = 0
                     THEN /\ heuristic' = [heuristic EXCEPT
                                              !.u = u, !.M = t.M,
                                              !.circuitOrientation = t.circuitOrientation,
                                              !.edgesBetweenCycles = t.edgesBetweenCycles]
                          /\ pc' = "cycles"
                          /\ UNCHANGED <<matchFrames, matchReturned, numberOf>>
                     ELSE /\ numberOf' =
                               IF t.configuration = 1
                               THEN [numberOf EXCEPT !.graphsSatisfyingFirstOddness = @ + 1]
                               ELSE [numberOf EXCEPT !.graphsSatisfyingSecondOddness = @ + 1]
                          /\ IF options.doublecheckFlag \/ options.printFlag
                             THEN /\ heuristic' = [heuristic EXCEPT
                                        !.u = u, !.M = t.M,
                                        !.circuitOrientation = t.circuitOrientation,
                                        !.edgesBetweenCycles = t.edgesBetweenCycles,
                                        !.configuration = t.configuration]
                                  /\ pc' = "verify"
                                  /\ UNCHANGED <<matchFrames, matchReturned>>
                             ELSE \E st \in {runToPerfectMatching(t.adjacencyList,
                                                [frames |-> SubSeq(matchFrames, 1,
                                                                   Len(matchFrames) - 1),
                                                 F |-> heuristic.F,
                                                 returned |-> 1])} :
                                      /\ matchFrames' = st.frames
                                      /\ matchReturned' = st.returned
                                      /\ heuristic' = [heuristic EXCEPT
                                            !.u = u, !.M = t.M,
                                            !.circuitOrientation = t.circuitOrientation,
                                            !.edgesBetweenCycles = t.edgesBetweenCycles,
                                            !.configuration = t.configuration]
                                      /\ pc' = "matching"
    /\ UNCHANGED <<numberOfVertices, edgeNumbering, orientation, lastOp,
                   callsValid, stronglyConnected, deletableEdges,
                   reverseDeletableEdges, options, frames, returned,
                   bitsetsOfDeletableEdges, frankNumber, leafOrientation,
                   compFrames, compOrientation, hasCompOrientation, driverVars,
                   strongDeletableSets, verified, exitStatus, previousRun, offered>>

\* lines 1421-1483 of verifyOddnessHeuristicOrientations: the two orientations
\* are built
BuildOrientations ==
    /\ pc = "verify"
    /\ \E o \in {orientationsOfHeuristic(adjacencyList, numberOfVertices,
                     heuristic.circuitOrientation, heuristic.F, heuristic.M,
                     heuristic.edgesBetweenCycles, heuristic.configuration)} :
          /\ verified' = [noVerification EXCEPT !.orientation1 = o.orientation1,
                                                !.orientation2 = o.orientation2]
          /\ heuristic' = [heuristic EXCEPT
                              !.circuitOrientation = o.circuitOrientation]
          /\ pc' = IF o.fault THEN "fault" ELSE "built"
    /\ UNCHANGED <<digraphVars, searchVars, driverVars, strongDeletableSets,
                   matchFrames, matchReturned, exitStatus, previousRun, offered>>

\* lines 1485-1519: the process exits unless both orientations are strongly
\* connected and their deletable edges are all the edges; else the call of
\* hasSufficientCondition returns true (lines 1267-1269, 1341-1343)
CheckOrientations ==
    /\ pc = "built"
    /\ IF \/ ~isStronglyConnected(verified.orientation1)
          \/ ~isStronglyConnected(verified.orientation2)
       THEN /\ verified' = [verified EXCEPT !.error = "not strongly connected"]
            /\ exitStatus' = 1
            /\ pc' = "exited"
            /\ UNCHANGED <<matchFrames, matchReturned, heuristic>>
       ELSE \E en \in {numberEdges(adjacencyList, numberOfVertices)} :
            \E d1 \in {getDeletableEdges(verified.orientation1, numberOfVertices, en)} :
            \E d2 \in {getDeletableEdges(verified.orientation2, numberOfVertices, en)} :
                IF (d1.deletableEdges \cup d2.deletableEdges)
                      # complement(EMPTY, (3 * numberOfVertices) \div 2)
                THEN /\ verified' = [orientation1 |-> d1.orientation,
                                     orientation2 |-> d2.orientation,
                                     deletableEdges1 |-> d1.deletableEdges,
                                     deletableEdges2 |-> d2.deletableEdges,
                                     error |-> "not complementary"]
                     /\ exitStatus' = 1
                     /\ pc' = "exited"
                     /\ UNCHANGED <<matchFrames, matchReturned, heuristic>>
                ELSE /\ verified' = [orientation1 |-> d1.orientation,
                                     orientation2 |-> d2.orientation,
                                     deletableEdges1 |-> d1.deletableEdges,
                                     deletableEdges2 |-> d2.deletableEdges,
                                     error |-> ""]
                     /\ MatchingReturns(adjacencyList, 1)
                     /\ UNCHANGED exitStatus
    /\ UNCHANGED <<digraphVars, searchVars, driverVars, strongDeletableSets,
                   previousRun, offered>>

\* lines 1712-1725: hasSufficientCondition has returned to main
EndHeuristic ==
    /\ pc = "matching"
    /\ matchFrames = <<>>
    /\ IF matchReturned = 1
       THEN /\ numberOf' = [numberOf EXCEPT
                               !.graphsSatisfyingOddnessCondition = @ + 1]
            /\ frankNumber' = 2
       ELSE /\ numberOf' = [numberOf EXCEPT
                               !.graphsNotSatisfyingOddnessCondition = @ + 1]
            /\ UNCHANGED frankNumber
    /\ matchReturned' = NoValue
    /\ pc' = "checked"
    /\ UNCHANGED <<digraphVars, options, frames, returned,
                   bitsetsOfDeletableEdges, leafOrientation, compFrames,
                   compOrientation, hasCompOrientation, driverVars,
                   strongDeletableSets, matchFrames, heuristic, verified,
                   exitStatus, previousRun, offered>>

-----------------------------------------------------------------------------
(* Graphs the specifications run on, as graph6 lines *)

K4Line == <<67, 126, 10>>                       \* C~
PrismLine == <<69, 123, 83, 119, 10>>           \* E{Sw
K33Line == <<69, 115, 92, 111, 10>>             \* Es\o
CubeLine == <<71, 115, 88, 80, 95, 91, 10>>     \* GsXP_[
PetersenLine == <<73, 115, 80, 64, 79, 107, 87, 72, 71, 10>>   \* IsP@OkWHG

-----------------------------------------------------------------------------
(* SpecExact: the driver with -e, with or without -b, on one graph *)

ExactLines == {K4Line, PrismLine, K33Line, CubeLine, PetersenLine}

InitDriver(lines, opts) ==
    /\ pc = "getline"
    /\ stdin = lines
    /\ input = lines
    /\ options = opts
    /\ numberOfVertices = 0
    /\ adjacencyList = NoGraph
    /\ edgeNumbering = NoGraph
    /\ orientation = emptyGraph(0)
    /\ lastOp = "emptyGraph"
    /\ callsValid = TRUE
    /\ stronglyConnected = FALSE
    /\ deletableEdges = EMPTY
    /\ reverseDeletableEdges = EMPTY
    /\ numberOf = zeroCounters
    /\ frames = <<>>
    /\ returned = NoValue
    /\ bitsetsOfDeletableEdges = initArray(opts.sizeOfArray)
    /\ frankNumber = 0
    /\ leafOrientation = emptyGraph(0)
    /\ compFrames = <<>>
    /\ compOrientation = emptyGraph(0)
    /\ hasCompOrientation = FALSE
    /\ graphString = <<>>
    /\ totalGraphs = 0
    /\ counter = 0
    /\ skippedGraphs = 0
    /\ passedGraphs = 0
    /\ stdout = <<>>
    /\ InitHeuristicIdle

\* the deletable sets of all strong orientations of the graph a line encodes
StrongDeletableSetsOfLine(line) ==
    LET n == getNumberOfVertices(line)
        adj == loadGraph(line, n).adjacencyList
    IN  StrongDeletableSets(adj, n, numberEdges(adj, n))

InitExact ==
    \E line \in ExactLines, b \in BOOLEAN :
        /\ InitDriver(<<line>>, [defaultOptions EXCEPT
                                    !.oddCyclesHeuristicFlag = FALSE,
                                    !.bruteForceFlag = b])
        /\ strongDeletableSets = {}

NextExact ==
    \/ GetLine
    \/ BeginExact
    \/ GenLeaf
    \/ LeafDeletable
    \/ BeginComplement
    \/ CompleteStep
    \/ LeafSolved
    \/ EndExact
    \/ Emit
    \/ Finish

SpecExact == InitExact /\ [][NextExact]_vars

-----------------------------------------------------------------------------
(* SpecShard: the driver with -e -s res/mod on one graph *)

MaxModulo == 19

ShardLines == {K4Line, CubeLine}

InitShard ==
    \E line \in ShardLines, m \in 1 .. MaxModulo :
        \E r \in 0 .. (m - 1) :
            /\ InitDriver(<<line>>, [defaultOptions EXCEPT
                                        !.oddCyclesHeuristicFlag = FALSE,
                                        !.singleGraphFlag = TRUE,
                                        !.modulo = m,
                                        !.remainder = r])
            /\ strongDeletableSets = {}

SpecShard == InitShard /\ [][NextExact]_vars

-----------------------------------------------------------------------------
(* SpecSolver: every orientation of a graph is tested, the strong ones get   *)
(* their deletable edges computed and are handed to                          *)
(* hasComplementaryOrientation                                               *)

SolverLines == {K4Line, PrismLine, K33Line, CubeLine}

InitSolver ==
    \E line \in SolverLines :
        LET n == getNumberOfVertices(line)
            adj == loadGraph(line, n).adjacencyList
            en == numberEdges(adj, n)
        IN  /\ pc = "graph"
            /\ numberOfVertices = n
            /\ adjacencyList = adj
            /\ edgeNumbering = en
            /\ orientation = emptyGraph(n)
            /\ lastOp = "emptyGraph"
            /\ callsValid = TRUE
            /\ stronglyConnected = FALSE
            /\ deletableEdges = EMPTY
            /\ reverseDeletableEdges = EMPTY
            /\ InitSearchIdle
            /\ stdin = <<>>
            /\ input = <<>>
            /\ graphString = line
            /\ totalGraphs = 0
            /\ counter = 0
            /\ skippedGraphs = 0
            /\ passedGraphs = 0
            /\ stdout = <<>>
            /\ strongDeletableSets = StrongDeletableSets(adj, n, en)

\* any orientation of the graph may be the one under test
ChooseOrientation(forward) ==
    /\ pc = "graph"
    /\ orientation' = OrientationOf(adjacencyList, numberOfVertices, forward)
    /\ pc' = "build"
    /\ UNCHANGED <<numberOfVertices, adjacencyList, edgeNumbering, lastOp,
                   callsValid, stronglyConnected, deletableEdges,
                   reverseDeletableEdges, searchVars, driverVars,
                   strongDeletableSets, heuristicVars, offered>>

NextSolver ==
    \/ \E forward \in SUBSET EdgeSet(adjacencyList) : ChooseOrientation(forward)
    \/ ApplyIsStronglyConnected
    \/ ApplyGetDeletableEdges
    \/ BeginComplement
    \/ CompleteStep

SpecSolver == InitSolver /\ [][NextSolver]_vars

-----------------------------------------------------------------------------
(* SpecHeuristic: the driver with -2, with or without -d, on one graph *)

\* three cyclically 4-edge-connected graphs on 10 vertices
TenALine == <<73, 115, 88, 80, 63, 99, 73, 64, 87, 10>>    \* IsXP?cI@W
TenBLine == <<73, 115, 88, 80, 63, 99, 72, 64, 103, 10>>   \* IsXP?cH@g
TenCLine == <<73, 115, 88, 64, 63, 111, 85, 64, 111, 10>>  \* IsX@?oU@o
TenDLine == <<73, 123, 83, 95, 95, 83, 69, 64, 87, 10>>    \* I{S__SE@W
TenELine == <<73, 123, 79, 95, 111, 111, 69, 64, 87, 10>>   \* I{O_ooE@W

HeuristicLines ==
    {K4Line, PrismLine, K33Line, CubeLine, PetersenLine, TenALine, TenBLine,
     TenCLine, TenDLine, TenELine}

InitHeuristic ==
    \E line \in HeuristicLines, d \in BOOLEAN :
        /\ InitDriver(<<line>>, [defaultOptions EXCEPT
                                    !.exhaustiveCheckFlag = FALSE,
                                    !.doublecheckFlag = d])
        /\ strongDeletableSets = {}

NextHeuristic ==
    \/ GetLine
    \/ BeginHeuristic
    \/ TwoOddCycles
    \/ Configuration
    \/ BuildOrientations
    \/ CheckOrientations
    \/ EndHeuristic
    \/ Emit
    \/ Finish

SpecHeuristic == InitHeuristic /\ [][NextHeuristic]_vars

-----------------------------------------------------------------------------
(* SpecParity: the driver with -2, with or without -d, on one graph and,    *)
(* when it answers 2, the driver with -e on the same line                   *)

InitParity == InitHeuristic

\* the program is started again on the lines given, with the options given;
\* what the run that has just ended answered and wrote is kept
RunAgain(lines, opts) ==
    /\ previousRun' = [frankNumber |-> frankNumber,
                       adjacencyList |-> adjacencyList, stdout |-> stdout]
    /\ pc' = "getline"
    /\ stdin' = lines
    /\ input' = lines
    /\ options' = opts
    /\ numberOfVertices' = 0
    /\ adjacencyList' = NoGraph
    /\ edgeNumbering' = NoGraph
    /\ orientation' = emptyGraph(0)
    /\ lastOp' = "emptyGraph"
    /\ callsValid' = TRUE
    /\ stronglyConnected' = FALSE
    /\ deletableEdges' = EMPTY
    /\ reverseDeletableEdges' = EMPTY
    /\ numberOf' = zeroCounters
    /\ frames' = <<>>
    /\ returned' = NoValue
    /\ bitsetsOfDeletableEdges' = initArray(opts.sizeOfArray)
    /\ frankNumber' = 0
    /\ leafOrientation' = emptyGraph(0)
    /\ compFrames' = <<>>
    /\ compOrientation' = emptyGraph(0)
    /\ hasCompOrientation' = FALSE
    /\ graphString' = <<>>
    /\ totalGraphs' = 0
    /\ counter' = 0
    /\ skippedGraphs' = 0
    /\ passedGraphs' = 0
    /\ stdout' = <<>>
    /\ matchFrames' = <<>>
    /\ matchReturned' = NoValue
    /\ heuristic' = noHeuristic
    /\ verified' = noVerification
    /\ exitStatus' = NoValue
    /\ offered' = {}
    /\ UNCHANGED strongDeletableSets

\* the program is started again, with -e, on the line it has just answered
RunExactOnSameLine ==
    /\ pc = "finished"
    /\ previousRun = noRun
    /\ frankNumber = 2
    /\ RunAgain(<<graphString>>,
                [defaultOptions EXCEPT !.oddCyclesHeuristicFlag = FALSE])

NextParity ==
    \/ NextHeuristic
    \/ RunExactOnSameLine
    \/ BeginExact
    \/ GenLeaf
    \/ LeafDeletable
    \/ BeginComplement
    \/ CompleteStep
    \/ LeafSolved
    \/ EndExact

SpecParity == InitParity /\ [][NextParity]_vars

-----------------------------------------------------------------------------
(* SpecPetersen: the driver with its default flags, with or without -c, on  *)
(* the Petersen graph                                                       *)

InitPetersen ==
    \E c \in BOOLEAN :
        /\ InitDriver(<<PetersenLine>>, [defaultOptions EXCEPT !.complementFlag = c])
        /\ strongDeletableSets = {}

NextPetersen ==
    \/ GetLine \/ BeginHeuristic \/ TwoOddCycles \/ Configuration \/ EndHeuristic
    \/ BeginExact \/ GenLeaf \/ LeafDeletable \/ BeginComplement \/ CompleteStep
    \/ LeafSolved \/ EndExact \/ Emit \/ Finish

SpecPetersen == InitPetersen /\ [][NextPetersen]_vars

-----------------------------------------------------------------------------
(* SpecStream: the driver with its default flags, with or without -c, on    *)
(* streams of several lines, some of them not the graph6 code of a cubic    *)
(* graph                                                                    *)

BangLine == <<33, 10>>                          \* !
EmptyLine == <<10>>                             \* an empty line
UnterminatedLine == <<67, 126>>                 \* C~ with no newline before the end of the input
OverlongLine == <<67, 126, 63, 10>>             \* C~? : two body characters where n = 4 takes one
TriangleLine == <<66, 119, 10>>                 \* Bw : the triangle, 2-regular

Streams ==
    {<<K4Line>>, <<K4Line, PetersenLine>>, <<BangLine, K4Line>>,
     <<EmptyLine, K4Line>>, <<K4Line, BangLine, PrismLine>>,
     <<UnterminatedLine>>, <<OverlongLine>>, <<TriangleLine, K4Line>>}

InitStream ==
    \E lines \in Streams, c \in BOOLEAN :
        /\ InitDriver(lines, [defaultOptions EXCEPT !.complementFlag = c])
        /\ strongDeletableSets = {}

NextStream ==
    \/ GetLine \/ BeginHeuristic \/ TwoOddCycles \/ Configuration \/ EndHeuristic
    \/ BeginExact \/ GenLeaf \/ LeafDeletable \/ BeginComplement \/ CompleteStep
    \/ LeafSolved \/ EndExact \/ Emit \/ Finish

SpecStream == InitStream /\ [][NextStream]_vars

-----------------------------------------------------------------------------
(* SpecComplement: SpecStream where a run without -c is followed by a run   *)
(* with -c on the same input                                                *)

RunComplementOnSameInput ==
    /\ pc = "finished"
    /\ previousRun = noRun
    /\ ~options.complementFlag
    /\ RunAgain(input, [defaultOptions EXCEPT !.complementFlag = TRUE])

NextComplement == NextStream \/ RunComplementOnSameInput

SpecComplement == InitStream /\ [][NextComplement]_vars

-----------------------------------------------------------------------------
(* SpecLineShards: the driver without -s on a stream, first as the only     *)
(* shard (modulo 1), then on the same input as shard remainder/modulo       *)

\* largest modulo of the second run
MaxShards == 3

\* streams of distinct lines, at most one of them refused by getNumberOfVertices
ShardedStreams ==
    {<<K4Line, PrismLine, TriangleLine>>,
     <<TriangleLine, BangLine, K4Line, PrismLine>>,
     <<PrismLine, K4Line, K33Line, TriangleLine, CubeLine>>}

InitLineShards ==
    \E lines \in ShardedStreams, c \in BOOLEAN :
        /\ InitDriver(lines, [defaultOptions EXCEPT !.complementFlag = c])
        /\ strongDeletableSets = {}

RunShardOnSameInput ==
    /\ pc = "finished"
    /\ previousRun = noRun
    /\ \E m \in 1 .. MaxShards :
           \E r \in 0 .. (m - 1) :
               RunAgain(input, [options EXCEPT !.modulo = m, !.remainder = r])

NextLineShards == NextStream \/ RunShardOnSameInput

SpecLineShards == InitLineShards /\ [][NextLineShards]_vars

-----------------------------------------------------------------------------
(* SpecShardRuns: the driver with -e -s 0/m, with or without -b, on one     *)
(* graph, then with -s 1/m and so on on the same line as long as the answer *)
(* is not 2, and at last the driver with -e and no -s on the same line      *)

\* largest modulo of the sharded runs
MaxShardRuns == 7

ShardRunLines == {K4Line, PrismLine}

InitShardRuns ==
    \E line \in ShardRunLines, m \in 1 .. MaxShardRuns, b \in BOOLEAN :
        /\ InitDriver(<<line>>, [defaultOptions EXCEPT
                                    !.oddCyclesHeuristicFlag = FALSE,
                                    !.bruteForceFlag = b,
                                    !.singleGraphFlag = TRUE,
                                    !.modulo = m,
                                    !.remainder = 0])
        /\ strongDeletableSets = {}

\* the shard has not answered 2: the program is started for the next one
RunNextShard ==
    /\ pc = "finished"
    /\ options.singleGraphFlag
    /\ frankNumber # 2
    /\ options.remainder + 1 < options.modulo
    /\ RunAgain(input, [options EXCEPT !.remainder = @ + 1,
                                       !.sizeOfArray = defaultOptions.sizeOfArray])

\* a shard has answered 2, or none of them has: the program is started
\* without -s
RunUnsharded ==
    /\ pc = "finished"
    /\ options.singleGraphFlag
    /\ frankNumber = 2 \/ options.remainder + 1 = options.modulo
    /\ RunAgain(input, [options EXCEPT !.singleGraphFlag = FALSE,
                                       !.modulo = 1,
                                       !.remainder = 0,
                                       !.sizeOfArray = defaultOptions.sizeOfArray])

NextShardRuns == NextExact \/ RunNextShard \/ RunUnsharded

SpecShardRuns == InitShardRuns /\ [][NextShardRuns]_vars

-----------------------------------------------------------------------------
(* Claims *)

\* C1: whenever generateAllOrientations without -b returns 2, the candidate D
\* and the completed D' each orient every edge of the graph in exactly one
\* direction, both are strongly connected, and the arcs deletable in D together
\* with the arcs deletable in D' are all the edges.
C1_ExactSoundness ==
    (pc = "classified" /\ ~options.bruteForceFlag /\ frankNumber = 2) =>
        /\ IsOrientationOf(leafOrientation, adjacencyList)
        /\ IsOrientationOf(compOrientation, adjacencyList)
        /\ EveryPairConnected(leafOrientation)
        /\ EveryPairConnected(compOrientation)
        /\ (DeletableArcs(leafOrientation, edgeNumbering)
              \cup DeletableArcs(compOrientation, edgeNumbering))
           = AllEdgeNumbers(adjacencyList)

\* C2: when S is the deletable set of a strong orientation in which every
\* vertex meets an edge of S, and some strong orientation D' of the graph has
\* deletable(D') \cup S = E, then hasComplementaryOrientation(G, S) is true.
C2_SolverCompleteness ==
    pc = "solved" =>
        ((\E s \in strongDeletableSets :
              (s \cup deletableEdges) = AllEdgeNumbers(adjacencyList))
         => hasCompOrientation)

C2_Witness ==
    /\ pc = "solved"
    /\ numberOfVertices = 8
    /\ hasCompOrientation
    /\ \E s \in strongDeletableSets :
          (s \cup deletableEdges) = AllEdgeNumbers(adjacencyList)

\* C3: with the brute force flag findFrankNumber returns 2 when two strong
\* orientations of the graph have deletable sets whose union is E, found by
\* comparing all pairs of strong orientations, and 0 otherwise.
C3_BruteForceExact ==
    (pc = "classified" /\ options.bruteForceFlag) =>
        frankNumber = (IF HasComplementaryPair(
                              StrongDeletableSetsOfLine(graphString), adjacencyList)
                       THEN 2 ELSE 0)

C3_Witness ==
    /\ pc = "classified"
    /\ options.bruteForceFlag
    /\ numberOfVertices = 10
    /\ numberOf.generatedOrientations > 0
    /\ frankNumber = 0

\* C4: when the heuristic answers 2 for a cyclically 4-edge-connected graph,
\* findFrankNumber run with -e on the same adjacency lists returns 2 as well.
C4_DriverParity ==
    (/\ pc = "classified"
     /\ previousRun.frankNumber = 2
     /\ CyclicallyFourEdgeConnected(adjacencyList)) =>
        /\ adjacencyList = previousRun.adjacencyList
        /\ frankNumber = 2

C4_Witness ==
    /\ pc = "classified"
    /\ previousRun.frankNumber = 2
    /\ numberOfVertices = 10
    /\ CyclicallyFourEdgeConnected(adjacencyList)
    /\ adjacencyList = previousRun.adjacencyList
    /\ frankNumber = 2

C6_Deletability ==
    [][(pc = "tested" /\ pc' = "deleted") =>
          /\ orientation' = orientation
          /\ deletableEdges' = DeletableArcs(orientation, edgeNumbering')]_vars

C6_Witness ==
    /\ pc = "deleted"
    /\ numberOfVertices = 4
    /\ deletableEdges # EMPTY
    /\ Cardinality(deletableEdges) < orientation.numberOfArcs

\* C7: isStronglyConnected answers true exactly when every ordered pair of
\* vertices is joined by a directed path.
C7_StrongConnectivity ==
    pc \in {"tested", "deleted"} => (stronglyConnected <=> EveryPairConnected(orientation))

C7_Witness ==
    /\ pc = "tested"
    /\ numberOfVertices = 4
    /\ stronglyConnected
    /\ orientation.numberOfArcs = 4

\* C8: a strongly connected orientation and its reverse have the same set of
\* deletable edges under the same edge numbering.
C8_Symmetry ==
    pc = "deleted" => deletableEdges = reverseDeletableEdges

C8_Witness ==
    /\ pc = "deleted"
    /\ numberOfVertices = 4
    /\ orientation.numberOfArcs = 6
    /\ deletableEdges # EMPTY

\* C9 as stated: after any sequence of addArc / removeArc calls from the empty
\* digraph, v is in out[u] exactly when u is in in[v] and numberOfArcs is the
\* sum of the out-degrees.
C9_Original ==
    pc = "digraph" =>
        /\ InOutConsistent(orientation)
        /\ orientation.numberOfArcs = SumOfOutDegrees(orientation)

\* C9 amended: out and in mirror each other after any sequence of calls;
\* numberOfArcs is the sum of the out-degrees as long as every addArc added an
\* arc that was absent and every removeArc removed an arc that was present.
C9_DigraphInvariant ==
    pc = "digraph" =>
        /\ InOutConsistent(orientation)
        /\ callsValid => orientation.numberOfArcs = SumOfOutDegrees(orientation)

C9_Witness ==
    /\ pc = "digraph"
    /\ callsValid
    /\ lastOp = "removeArc"
    /\ orientation.numberOfArcs = 2

\* C10: on the Petersen graph with the default flags the heuristic fails, the
\* exact search returns 0 and the line is written to the standard output; with
\* -c nothing is written.
C10_Petersen ==
    /\ pc \in {"checked", "classified", "finished"} =>
          /\ frankNumber = 0
          /\ numberOf.graphsSatisfyingOddnessCondition = 0
          /\ numberOf.graphsNotSatisfyingOddnessCondition = 1
    /\ pc = "finished" =>
          /\ numberOf.generatedOrientations > 0
          /\ stdout = (IF options.complementFlag THEN <<>> ELSE <<PetersenLine>>)
          /\ passedGraphs = (IF options.complementFlag THEN 0 ELSE 1)

C10_Witness ==
    /\ pc = "finished"
    /\ ~options.complementFlag
    /\ options.oddCyclesHeuristicFlag
    /\ numberOf.graphsNotSatisfyingOddnessCondition = 1
    /\ numberOf.generatedOrientations > 0
    /\ frankNumber = 0
    /\ stdout = <<PetersenLine>>

\* C11: the driver classifies K4 (line C~) as Frank number 2; alone on the
\* input the line is not written to the standard output by default and is
\* written with -c; for the input K4 then Petersen the default output is the
\* Petersen line only.
C11_K4Scenario ==
    /\ (pc = "classified" /\ graphString = K4Line) => frankNumber = 2
    /\ (pc = "finished" /\ input = <<K4Line>>) =>
           stdout = (IF options.complementFlag THEN <<K4Line>> ELSE <<>>)
    /\ (pc = "finished" /\ input = <<K4Line, PetersenLine>>
           /\ ~options.complementFlag) =>
           stdout = <<PetersenLine>>

C11_Witness ==
    /\ pc = "finished"
    /\ input = <<K4Line, PetersenLine>>
    /\ ~options.complementFlag
    /\ counter = 2
    /\ stdout = <<PetersenLine>>

\* the lines of a sequence of lines
LinesOf(lines) == {lines[i] : i \in DOMAIN lines}

\* C12: a line that was decoded and classified is written to the standard
\* output exactly when (result # 2 and -c is not set) or (result = 2 and -c is
\* set), the result being 0 or 2; so of the run without -c and the run with -c
\* on the same input exactly one writes the line.
C12_EmissionPolicy ==
    /\ [][(pc \in {"classified", "checked"} /\ pc' = "getline") =>
            /\ frankNumber \in {0, 2}
            /\ stdout' = (IF \/ frankNumber # 2 /\ ~options.complementFlag
                             \/ frankNumber = 2 /\ options.complementFlag
                          THEN Append(stdout, graphString) ELSE stdout)]_vars
    /\ [](pc = "finished" /\ previousRun # noRun =>
            \A line \in {l \in LinesOf(input) : accepted(l)} :
                (line \in LinesOf(previousRun.stdout)) # (line \in LinesOf(stdout)))

C12_Witness ==
    /\ pc = "finished"
    /\ previousRun # noRun
    /\ options.complementFlag
    /\ input = <<K4Line, BangLine, PrismLine>>
    /\ stdout = <<K4Line, InvalidStartText, PrismLine>>
    /\ previousRun.stdout = <<InvalidStartText>>

\* C13: without -s, line number i of the input (from 1) is processed by the
\* shard remainder/modulo exactly when (i - 1) mod modulo = remainder, and the
\* output of the shard is the subsequence of the output of the run with modulo 1
\* that the lines of this residue class wrote, in the same order; the residue
\* classes being a partition of the lines, the outputs of the shards 0 ..
\* modulo - 1 together are the output of the run with modulo 1.
C13_ShardPartition ==
    /\ [][(pc = "getline" /\ stdin # <<>> /\ ~options.singleGraphFlag) =>
            /\ totalGraphs' = totalGraphs + 1
            /\ (counter' + skippedGraphs' = counter + skippedGraphs + 1)
                   = (totalGraphs % options.modulo = options.remainder)
            /\ (totalGraphs % options.modulo # options.remainder) =>
                   /\ pc' = "getline"
                   /\ stdout' = stdout
                   /\ counter' = counter /\ skippedGraphs' = skippedGraphs]_vars
    /\ [](pc = "finished" /\ previousRun # noRun =>
            LET WrittenByClass(x) ==
                    \E i \in DOMAIN input :
                        /\ (i - 1) % options.modulo = options.remainder
                        /\ \/ x = input[i]
                           \/ <<x>> = getNumberOfVerticesPrints(input[i])
            IN  stdout = SelectSeq(previousRun.stdout, WrittenByClass))

C13_Witness ==
    /\ pc = "finished"
    /\ previousRun # noRun
    /\ options.modulo = 3
    /\ options.remainder = 1
    /\ ~options.complementFlag
    /\ input = <<TriangleLine, BangLine, K4Line, PrismLine>>
    /\ previousRun.stdout = <<TriangleLine, InvalidStartText>>
    /\ stdout = <<InvalidStartText>>

-----------------------------------------------------------------------------
(* The pool of getIntermediateFrankNumber, offered arbitrary sets *)

\* the numbers of vertices the pool is run for: 3 and 4 edges
PoolVertices == {2, 3}

\* the sets that may be offered: not empty, not all edges
OfferableSets(n) ==
    (SUBSET (0 .. ((3 * n) \div 2 - 1))) \ {EMPTY, 0 .. ((3 * n) \div 2 - 1)}

InitPool ==
    /\ pc = "pool"
    /\ numberOfVertices \in PoolVertices
    /\ orientation = emptyGraph(numberOfVertices)
    /\ adjacencyList = NoGraph
    /\ edgeNumbering = NoGraph
    /\ lastOp = "emptyGraph"
    /\ callsValid = TRUE
    /\ stronglyConnected = FALSE
    /\ deletableEdges = EMPTY
    /\ reverseDeletableEdges = EMPTY
    /\ InitIdle

\* lines 800 and 811-812: one more orientation is counted and its deletable
\* set is handed to getIntermediateFrankNumber
OfferDeletableEdges(deletable) ==
    /\ pc = "pool"
    /\ numberOf.generatedOrientations < MaxOffers
    /\ deletableEdges' = deletable
    /\ offered' = offered \cup {deletable}
    /\ \E g \in {getIntermediateFrankNumber(
                     [numberOf EXCEPT !.generatedOrientations = @ + 1],
                     numberOfVertices, bitsetsOfDeletableEdges, deletable)} :
          /\ numberOf' = g.cnt
          /\ bitsetsOfDeletableEdges' = g.pool
          /\ returned' = g.ret
          /\ pc' = IF g.ret = 2 THEN "pooled" ELSE "pool"
    /\ UNCHANGED <<numberOfVertices, adjacencyList, edgeNumbering, orientation,
                   lastOp, callsValid, stronglyConnected, reverseDeletableEdges,
                   options, frames, frankNumber, leafOrientation, compFrames,
                   compOrientation, hasCompOrientation, driverVars,
                   strongDeletableSets, heuristicVars>>

NextPool ==
    \E deletable \in OfferableSets(numberOfVertices) :
        OfferDeletableEdges(deletable)

SpecPool == InitPool /\ [][NextPool]_vars

-----------------------------------------------------------------------------
(* -s on inputs of one line and of several lines *)

SingleStreams ==
    {<<line>> : line \in ShardLines}
    \cup {<<K4Line, PrismLine>>, <<TriangleLine, K4Line, PrismLine>>,
          <<BangLine, K4Line>>}

InitSingle ==
    \E lines \in SingleStreams, m \in 1 .. MaxModulo, c \in BOOLEAN :
        \E r \in 0 .. (m - 1) :
            /\ InitDriver(lines, [defaultOptions EXCEPT
                                     !.oddCyclesHeuristicFlag = FALSE,
                                     !.singleGraphFlag = TRUE,
                                     !.complementFlag = c,
                                     !.modulo = m,
                                     !.remainder = r])
            /\ strongDeletableSets = {}

SpecSingle == InitSingle /\ [][NextExact]_vars

-----------------------------------------------------------------------------
(* The decoding of one line: getNumberOfVertices, then loadGraph *)

\* the bytes of the header ">>graph6<<"
Graph6Header == <<62, 62, 103, 114, 97, 112, 104, 54, 60, 60>>

\* the graphs on four vertices, one body byte each, with and without header
DecodeLines ==
    {<<67, c, 10>> : c \in 63 .. 126}
    \cup {Graph6Header \o <<67, c, 10>> : c \in 63 .. 126}

InitDecode ==
    \E line \in DecodeLines :
        /\ InitDriver(<<line>>, defaultOptions)
        /\ strongDeletableSets = {}

\* getline and the call of getNumberOfVertices: lines 1650 and 1670
CallGetNumberOfVertices ==
    /\ pc = "getline"
    /\ stdin # <<>>
    /\ graphString' = Head(stdin)
    /\ stdin' = Tail(stdin)
    /\ totalGraphs' = totalGraphs + 1
    /\ numberOfVertices' = getNumberOfVertices(Head(stdin))
    /\ stdout' = stdout \o getNumberOfVerticesPrints(Head(stdin))
    /\ pc' = "counted"
    /\ UNCHANGED <<adjacencyList, edgeNumbering, orientation, lastOp, callsValid,
                   stronglyConnected, deletableEdges, reverseDeletableEdges,
                   options, numberOf, frames, returned, bitsetsOfDeletableEdges,
                   leafOrientation, compFrames, compOrientation, hasCompOrientation,
                   frankNumber, input, counter, skippedGraphs, passedGraphs,
                   strongDeletableSets, heuristicVars, offered>>

\* the tests on the number of vertices and the call of loadGraph: lines
\* 1670-1697
CallLoadGraph ==
    /\ pc = "counted"
    /\ numberOfVertices # -1
    /\ numberOfVertices <= MAXVERTICES
    /\ (numberOfVertices * 3) \div 2 <= MAXVERTICES
    /\ loadGraph(graphString, numberOfVertices).ret # -1
    /\ adjacencyList' = loadGraph(graphString, numberOfVertices).adjacencyList
    /\ counter' = counter + 1
    /\ pc' \in {"decoded"} \cup (IF loadGraphUndefined(graphString, numberOfVertices)
                                 THEN {"fault"} ELSE {})
    /\ UNCHANGED <<numberOfVertices, edgeNumbering, orientation, lastOp, callsValid,
                   stronglyConnected, deletableEdges, reverseDeletableEdges,
                   options, numberOf, frames, returned, bitsetsOfDeletableEdges,
                   leafOrientation, compFrames, compOrientation, hasCompOrientation,
                   frankNumber, stdin, input, graphString, totalGraphs, stdout,
                   skippedGraphs, passedGraphs, strongDeletableSets, heuristicVars, offered>>

NextDecode == CallGetNumberOfVertices \/ CallLoadGraph

SpecDecode == InitDecode /\ [][NextDecode]_vars

-----------------------------------------------------------------------------
\* a is b with some of its elements left out, the order kept
RECURSIVE IsSubsequence(_, _)
IsSubsequence(a, b) ==
    IF a = <<>> THEN TRUE
    ELSE IF b = <<>> THEN FALSE
    ELSE IF Head(a) = Head(b) THEN IsSubsequence(Tail(a), Tail(b))
    ELSE IsSubsequence(a, Tail(b))

\* C14: whatever the input, what has been written to the standard output is a
\* sequence of lines of the input, each byte for byte as it was read and in the
\* order of the input, and every write to the standard output is the write of
\* the line being handled; no diagnostic text is written there.
C14_StdoutPurity ==
    /\ [](IsSubsequence(stdout, input))
    /\ [][stdout' # stdout => stdout' = Append(stdout, graphString')]_vars

\* C15 as stated: every graph handed to the heuristic or to the exact
\* procedure has three neighbours at every vertex, and a line whose graph is not
\* cubic is skipped: counted as skipped, not classified, not written.
C15_Original ==
    /\ [](pc \in {"loaded", "checked", "classified"} =>
            \A v \in 0 .. (numberOfVertices - 1) : size(adjacencyList[v]) = 3)
    /\ [][(pc = "getline" /\ stdin # <<>> /\ accepted(Head(stdin))
           /\ \E v \in DOMAIN loadGraph(Head(stdin),
                                        getNumberOfVertices(Head(stdin))).adjacencyList :
                  size(loadGraph(Head(stdin),
                                 getNumberOfVertices(Head(stdin))).adjacencyList[v]) # 3) =>
              /\ skippedGraphs' = skippedGraphs + 1
              /\ counter' = counter
              /\ pc' = "getline"]_vars

\* C15, amended: the driver tests the size of the graph and the end of the
\* line, never the degrees.  A line of the residue class is skipped exactly
\* when its number of vertices cannot be read, or n > MAXVERTICES, or
\* 3n/2 > MAXVERTICES, or the line has no newline; the stream then continues.
\* Every other line is handed to the heuristic or to the exact procedure with
\* the adjacency loadGraph decoded, whatever the degrees.
C15_SizeCheckOnly ==
    [][(pc = "getline" /\ stdin # <<>>
        /\ ~(options.singleGraphFlag /\ totalGraphs >= 1)
        /\ (options.singleGraphFlag \/ totalGraphs % options.modulo = options.remainder)) =>
          LET line == Head(stdin)
              n == getNumberOfVertices(line)
          IN  IF \/ n = -1
                 \/ n > MAXVERTICES
                 \/ (3 * n) \div 2 > MAXVERTICES
                 \/ \A i \in DOMAIN line : line[i] # 10
              THEN /\ skippedGraphs' = skippedGraphs + 1
                   /\ counter' = counter
                   /\ pc' = "getline"
                   /\ ~IsSubsequence(<<line>>, SubSeq(stdout', Len(stdout) + 1, Len(stdout')))
              ELSE /\ skippedGraphs' = skippedGraphs
                   /\ counter' = counter + 1
                   /\ pc' \in {"loaded", "checked"}
                   /\ numberOfVertices' = n
                   /\ adjacencyList' = loadGraph(line, n).adjacencyList]_vars

\* the triangle, which is not cubic, was handed on, classified and written,
\* and the line after it was handled too
C15_Witness ==
    /\ pc = "finished"
    /\ input = <<TriangleLine, K4Line>>
    /\ ~options.complementFlag
    /\ counter = 2
    /\ skippedGraphs = 0
    /\ \E v \in DOMAIN loadGraph(TriangleLine, 3).adjacencyList :
           size(loadGraph(TriangleLine, 3).adjacencyList[v]) # 3
    /\ stdout = <<TriangleLine>>

\* line without its header, if it has one
WithoutHeader(line) ==
    IF Len(line) >= 10 /\ SubSeq(line, 1, 10) = Graph6Header
    THEN SubSeq(line, 11, Len(line)) ELSE line

\* line is a line of the graph6 format for a graph of at most 62 vertices: the
\* byte n + 63, then ceil(n(n-1)/12) bytes of 63 .. 126, then the newline
ValidGraph6Line(line) ==
    LET body == WithoutHeader(line)
    IN  /\ Len(body) >= 2
        /\ body[1] \in 63 .. 125
        /\ body[Len(body)] = 10
        /\ Len(body) - 2 = (((body[1] - 63) * (body[1] - 64)) \div 2 + 5) \div 6
        /\ \A i \in 2 .. (Len(body) - 1) : body[i] \in 63 .. 126

\* C16: a line that is not a valid graph6 line (empty, wrong first character,
\* wrong length for its number of vertices, no newline) is skipped: it is not
\* handed on to be classified and it is never written to the standard output.
C16_InvalidLinesSkipped ==
    /\ [][(pc = "getline" /\ stdin # <<>> /\ ~ValidGraph6Line(Head(stdin))) =>
            /\ counter' = counter
            /\ pc' \in {"getline", "finished"}]_vars
    /\ [](\A i \in DOMAIN input :
            ~ValidGraph6Line(input[i]) => input[i] \notin LinesOf(stdout))

\* C17: for a line made of the header >>graph6<< and a valid body,
\* getNumberOfVertices returns the number of vertices the body encodes and
\* loadGraph builds the adjacency it builds for the body alone.
C17_HeaderDecoding ==
    (graphString # <<>> /\ graphString # WithoutHeader(graphString)) =>
        /\ pc # "fault"
        /\ pc \in {"counted", "decoded"} =>
               numberOfVertices = WithoutHeader(graphString)[1] - 63
        /\ pc = "decoded" =>
               adjacencyList =
                   loadGraph(WithoutHeader(graphString),
                             WithoutHeader(graphString)[1] - 63).adjacencyList

\* C18 as stated: with -s and two or more lines on the input the driver warns
\* and goes on, so at the end of the run every line has been read and either
\* processed or skipped.
C18_Original ==
    (pc = "finished" /\ options.singleGraphFlag) =>
        /\ stdin = <<>>
        /\ counter + skippedGraphs = Len(input)

\* C18, amended: with -s, when a second line is read the driver warns, takes
\* the line back out of totalGraphs and leaves the reading loop; that line and
\* all lines after it are neither processed nor written.  The run then ends as
\* a run on the first line alone: one line counted, and nothing on the
\* standard output but what the first line wrote.
C18_WarningEndsReading ==
    /\ [][(pc = "getline" /\ stdin # <<>> /\ options.singleGraphFlag
           /\ totalGraphs >= 1) =>
            /\ pc' = "finished"
            /\ totalGraphs' = totalGraphs
            /\ counter' = counter
            /\ skippedGraphs' = skippedGraphs
            /\ stdout' = stdout]_vars
    /\ [](pc = "finished" /\ options.singleGraphFlag /\ input # <<>> =>
            /\ totalGraphs = 1
            /\ counter + skippedGraphs = 1
            /\ stdout \in {<<>>, <<input[1]>>, getNumberOfVerticesPrints(input[1])})

C18_Witness ==
    /\ pc = "finished"
    /\ options.singleGraphFlag
    /\ input = <<TriangleLine, K4Line, PrismLine>>
    /\ stdin = <<PrismLine>>
    /\ totalGraphs = 1
    /\ counter = 1
    /\ stdout = <<TriangleLine>>

\* the first edge (0, min adj[0]) is directed away from vertex 0
FirstEdgeForward(g, adj) == next(adj[0], 0) \in g.adjacencyList[0]

\* no vertex has three outgoing or three incoming arcs
NoDegreeThree(g) ==
    \A u \in DOMAIN g.adjacencyList :
        /\ Cardinality(g.adjacencyList[u]) # 3
        /\ Cardinality(g.reverseAdjacencyList[u]) # 3

\* C19 as stated: the first edge has one direction at every leaf of one search,
\* so a leaf is never the reverse of an orientation that reached the leaf
\* before it.
C19_Original ==
    (/\ pc = "search"
     /\ atLeaf(numberOfVertices, [frames |-> frames])
     /\ leafOrientation.numberOfVertices = numberOfVertices) =>
        /\ FirstEdgeForward(orientation, adjacencyList)
               = FirstEdgeForward(leafOrientation, adjacencyList)
        /\ orientation # reverse(leafOrientation)

\* C19, amended: generateAllOrientations breaks no symmetry.  Every edge, the
\* first one (0, min adj[0]) included, is tried in both directions, the
\* direction from the smaller endpoint first; a branch is cut only when a
\* vertex gets three outgoing or three incoming arcs.  So the leaves of a
\* search that runs to its end are all the orientations of the graph without
\* such a vertex, D and reverse(D) alike, and each is counted once.
C19_BothDirections ==
    /\ (pc = "search" /\ atLeaf(numberOfVertices, [frames |-> frames])) =>
           /\ IsOrientationOf(orientation, adjacencyList)
           /\ NoDegreeThree(orientation)
    /\ (/\ pc = "classified"
        /\ frankNumber = 0
        /\ ~options.oddCyclesHeuristicFlag
        /\ ~options.singleGraphFlag) =>
           numberOf.totalOrientationsGenerated
               = Cardinality({forward \in SUBSET EdgeSet(adjacencyList) :
                                 NoDegreeThree(OrientationOf(adjacencyList,
                                                             numberOfVertices,
                                                             forward))})

\* a leaf with the first edge directed towards vertex 0, the reverse of an
\* orientation that reached the leaf before it
C19_Witness ==
    /\ pc = "search"
    /\ atLeaf(numberOfVertices, [frames |-> frames])
    /\ leafOrientation.numberOfVertices = numberOfVertices
    /\ FirstEdgeForward(leafOrientation, adjacencyList)
    /\ ~FirstEdgeForward(orientation, adjacencyList)
    /\ orientation = reverse(leafOrientation)

\* C20 as stated: under -s a complete orientation that is not strongly
\* connected leaves the sequential index as it was.
C20_Original ==
    [][(/\ pc = "search"
        /\ atLeaf(numberOfVertices, [frames |-> frames])
        /\ options.singleGraphFlag
        /\ ~IsStrong(orientation)) =>
          numberOf'.totalOrientationsGenerated
              = numberOf.totalOrientationsGenerated]_vars

\* C20, amended: under -s the sequential index counts every complete
\* orientation that reaches the leaf, from 1 on and in the order of the search,
\* whether it is strongly connected or not; the count is taken before the test
\* index mod modulo = remainder and before the test of strong connectivity.
\* The orientation is processed further exactly when its index is in the
\* residue class and it is strongly connected.
C20_IndexCountsLeaves ==
    [][(/\ pc = "search"
        /\ atLeaf(numberOfVertices, [frames |-> frames])
        /\ options.singleGraphFlag) =>
          /\ numberOf'.totalOrientationsGenerated
                 = numberOf.totalOrientationsGenerated + 1
          /\ (pc' = "strong")
                 = (/\ numberOf'.totalOrientationsGenerated % options.modulo
                          = options.remainder
                    /\ IsStrong(orientation))]_vars

\* a leaf that is not strongly connected is about to take an index of the
\* residue class, after leaves that passed the deletability test
C20_Witness ==
    /\ pc = "search"
    /\ atLeaf(numberOfVertices, [frames |-> frames])
    /\ options.singleGraphFlag
    /\ options.modulo > 1
    /\ ~IsStrong(orientation)
    /\ (numberOf.totalOrientationsGenerated + 1) % options.modulo = options.remainder
    /\ numberOf.generatedOrientations >= 1
    /\ numberOf.totalOrientationsGenerated > numberOf.generatedOrientations

\* every vertex has at most two outgoing and at most two incoming arcs
DegreesAtMostTwo(g) ==
    \A u \in DOMAIN g.adjacencyList :
        /\ Cardinality(g.adjacencyList[u]) <= 2
        /\ Cardinality(g.reverseAdjacencyList[u]) <= 2

\* the place of the orientation in the order of the search: the edges taken
\* by ascending endpoints, the direction from the smaller endpoint first
RankOfOrientation(g, adj) ==
    LET E == EdgeSet(adj)
        Before(e) == {d \in E : d[1] < e[1] \/ (d[1] = e[1] /\ d[2] < e[2])}
        RECURSIVE Sum(_)
        Sum(set) == IF set = {} THEN 0
                    ELSE LET e == CHOOSE d \in set : TRUE
                         IN  2 ^ (Cardinality(E) - 1 - Cardinality(Before(e)))
                             + Sum(set \ {e})
    IN  Sum({e \in E : e[1] \in g.adjacencyList[e[2]]})

\* C21: at every leaf of generateAllOrientations each edge of the cubic graph
\* is oriented in exactly one direction, numberOfArcs = 3N/2 and no vertex has
\* more than two outgoing or two incoming arcs; the leaves come in the order
\* of the search, none twice, and when no candidate returns 2 the number of
\* leaves is the number of orientations with all degrees at most 2, so every
\* such orientation reaches the leaf.
C21_DegreePrune ==
    /\ [](pc = "search" /\ atLeaf(numberOfVertices, [frames |-> frames]) =>
            /\ IsOrientationOf(orientation, adjacencyList)
            /\ InOutConsistent(orientation)
            /\ orientation.numberOfArcs = (3 * numberOfVertices) \div 2
            /\ DegreesAtMostTwo(orientation))
    /\ [][(/\ pc \in {"search", "strong", "deleted", "solved"}
           /\ pc' = "search"
           /\ atLeaf(numberOfVertices, [frames |-> frames'])) =>
             RankOfOrientation(orientation', adjacencyList)
                 > RankOfOrientation(orientation, adjacencyList)]_vars
    /\ [](pc = "classified" /\ frankNumber = 0 /\ ~options.singleGraphFlag =>
            numberOf.totalOrientationsGenerated
                = Cardinality({forward \in SUBSET EdgeSet(adjacencyList) :
                                  DegreesAtMostTwo(OrientationOf(adjacencyList,
                                                                 numberOfVertices,
                                                                 forward))}))

\* the search of the Petersen graph has run to its end without a candidate
\* returning 2, after leaves that were strongly connected
C21_Witness ==
    /\ pc = "classified"
    /\ frankNumber = 0
    /\ numberOfVertices = 10
    /\ ~options.bruteForceFlag
    /\ numberOf.generatedOrientations > 0
    /\ numberOf.totalOrientationsGenerated > numberOf.generatedOrientations
    /\ DegreesAtMostTwo(leafOrientation)

\* all edge numbers of a graph on n vertices with 3n/2 edges
AllEdges(n) == 0 .. ((3 * n) \div 2 - 1)

\* C22: offered one by one to an initially empty pool, sets that are neither
\* empty nor all edges make getIntermediateFrankNumber return 2 on the first
\* set that covers the edges together with a set offered before it, and 0 on
\* every offer before; as long as the calls returned 0 no two offered sets are
\* complementary.
C22_PoolCompleteness ==
    /\ [](pc = "pool" =>
            \A T1 \in offered : \A T2 \in offered :
                (T1 \cup T2) # AllEdges(numberOfVertices))
    /\ [][(pc = "pool" /\ pc' \in {"pool", "pooled"}) =>
            /\ returned' \in {0, 2}
            /\ (returned' = 2)
                   = (\E T \in offered :
                         (T \cup deletableEdges') = AllEdges(numberOfVertices))]_vars

\* 2 was returned for a set whose partner is no longer in the pool: it was
\* offered, then dropped for a superset of it offered later
C22_Witness ==
    /\ pc = "pooled"
    /\ returned = 2
    /\ numberOfVertices = 3
    /\ numberOf.orientationsGivingSuperset >= 1
    /\ numberOf.orientationsGivingSubset >= 1
    /\ \E T \in offered :
          /\ (T \cup deletableEdges) = AllEdges(numberOfVertices)
          /\ \A i \in DOMAIN bitsetsOfDeletableEdges.array :
                bitsetsOfDeletableEdges.array[i] # T

\* the slots of the pool that hold a set
StoredSlots(a) == {i \in DOMAIN a.array : a.array[i] # EMPTY}

\* C29: after every call of getIntermediateFrankNumber that returned 0, the
\* sets stored in the pool are pairwise distinct and no one contains another,
\* every set offered so far is contained in a stored set, and a call whose
\* argument is contained in a stored set returns 0 and leaves the pool as it
\* was.
C29_PoolAntichain ==
    /\ [](pc = "pool" =>
            /\ \A i \in StoredSlots(bitsetsOfDeletableEdges) :
                  \A j \in StoredSlots(bitsetsOfDeletableEdges) :
                      i # j => ~(bitsetsOfDeletableEdges.array[i]
                                    \subseteq bitsetsOfDeletableEdges.array[j])
            /\ \A T \in offered :
                  \E i \in StoredSlots(bitsetsOfDeletableEdges) :
                      T \subseteq bitsetsOfDeletableEdges.array[i]
            /\ bitsetsOfDeletableEdges.used = Len(bitsetsOfDeletableEdges.array))
    /\ [][(/\ pc = "pool"
           /\ pc' \in {"pool", "pooled"}
           /\ \E i \in StoredSlots(bitsetsOfDeletableEdges) :
                 deletableEdges' \subseteq bitsetsOfDeletableEdges.array[i]) =>
             /\ returned' = 0
             /\ bitsetsOfDeletableEdges' = bitsetsOfDeletableEdges]_vars

\* a pool of two stored sets and a slot emptied for a superset, after a set
\* was discarded as dominated
C29_Witness ==
    /\ pc = "pool"
    /\ returned = 0
    /\ Cardinality(StoredSlots(bitsetsOfDeletableEdges)) = 2
    /\ Len(bitsetsOfDeletableEdges.array) = 3
    /\ numberOf.orientationsGivingSuperset >= 1
    /\ numberOf.orientationsGivingSubset >= 1
    /\ Cardinality(offered) = 4

RECURSIVE EntryOrientation(_)

\* the orientation on entry to the edge of the k-th activation record of
\* canCompleteCompOrientation, rebuilt from the edges and the directions of the
\* records below it: the first arc of hasComplementaryOrientation, then the
\* arc each record is trying, each with what canAddNewArc adds to it
EntryOrientation(k) ==
    IF k = 1
    THEN canAddNewArc(adjacencyList, emptyGraph(numberOfVertices), 0,
                      next(adjacencyList[0], -1), deletableEdges,
                      edgeNumbering).orientation
    ELSE IF compFrames[k - 1].at = "first"
    THEN canAddNewArc(adjacencyList, EntryOrientation(k - 1),
                      compFrames[k - 1].endpoint1, compFrames[k - 1].endpoint2,
                      deletableEdges, edgeNumbering).orientation
    ELSE canAddNewArc(adjacencyList, EntryOrientation(k - 1),
                      compFrames[k - 1].endpoint2, compFrames[k - 1].endpoint1,
                      deletableEdges, edgeNumbering).orientation

\* C23: when canCompleteCompOrientation tries endpoint2 -> endpoint1 at an
\* edge, after the attempt endpoint1 -> endpoint2 failed in canAddNewArc or in
\* the calls below it, the out sets, the in sets and the arc count are those
\* on entry to the edge: the attempt starts from the entry orientation, which
\* is also what orientationCopy holds all the while.
C23_BacktrackingRestore ==
    /\ [](pc = "complement" =>
            \A k \in DOMAIN compFrames :
                compFrames[k].at \in {"first", "second"} =>
                    compFrames[k].orientationCopy = EntryOrientation(k))
    /\ [][(/\ pc = "complement"
           /\ compFrames[Len(compFrames)].at = "first"
           /\ ~hasCompOrientation) =>
             compOrientation'
                 = canAddNewArc(adjacencyList, EntryOrientation(Len(compFrames)),
                                compFrames[Len(compFrames)].endpoint2,
                                compFrames[Len(compFrames)].endpoint1,
                                deletableEdges, edgeNumbering).orientation]_vars
    /\ [][(/\ pc = "complement"
           /\ compFrames[Len(compFrames)].at = "call"
           /\ nextOpenEdge(adjacencyList, numberOfVertices, compOrientation,
                           compFrames[Len(compFrames)].endpoint1,
                           compFrames[Len(compFrames)].endpoint2)[2] # -1
           /\ ~canAddNewArc(adjacencyList, compOrientation,
                  nextOpenEdge(adjacencyList, numberOfVertices, compOrientation,
                               compFrames[Len(compFrames)].endpoint1,
                               compFrames[Len(compFrames)].endpoint2)[1],
                  nextOpenEdge(adjacencyList, numberOfVertices, compOrientation,
                               compFrames[Len(compFrames)].endpoint1,
                               compFrames[Len(compFrames)].endpoint2)[2],
                  deletableEdges, edgeNumbering).ok) =>
             compOrientation'
                 = canAddNewArc(adjacencyList, compOrientation,
                      nextOpenEdge(adjacencyList, numberOfVertices, compOrientation,
                                   compFrames[Len(compFrames)].endpoint1,
                                   compFrames[Len(compFrames)].endpoint2)[2],
                      nextOpenEdge(adjacencyList, numberOfVertices, compOrientation,
                                   compFrames[Len(compFrames)].endpoint1,
                                   compFrames[Len(compFrames)].endpoint2)[1],
                      deletableEdges, edgeNumbering).orientation]_vars

\* the attempt endpoint1 -> endpoint2 of the innermost record has failed in a
\* call below it, which left arcs behind that the entry orientation has not
C23_Witness ==
    /\ pc = "complement"
    /\ compFrames[Len(compFrames)].at = "first"
    /\ ~hasCompOrientation
    /\ compOrientation.numberOfArcs
           > compFrames[Len(compFrames)].orientationCopy.numberOfArcs
    /\ compFrames[Len(compFrames)].orientationCopy
           = EntryOrientation(Len(compFrames))

\* canCompleteCompOrientation is entered and finds every edge visited: lines
\* 633-634
AtSolverLeaf ==
    /\ pc = "complement"
    /\ compFrames[Len(compFrames)].at = "call"
    /\ nextOpenEdge(adjacencyList, numberOfVertices, compOrientation,
                    compFrames[Len(compFrames)].endpoint1,
                    compFrames[Len(compFrames)].endpoint2)[2] = -1

\* C24: whenever canCompleteCompOrientation reaches the case of all edges
\* visited, every edge of the graph is oriented in exactly one direction, no
\* other arc is present, the in sets mirror the out sets and numberOfArcs is
\* 3N/2, so "Something went wrong" is not printed.
C24_SolverLeafComplete ==
    AtSolverLeaf =>
        /\ IsOrientationOf(compOrientation, adjacencyList)
        /\ InOutConsistent(compOrientation)
        /\ compOrientation.numberOfArcs = (3 * numberOfVertices) \div 2
        /\ SumOfOutDegrees(compOrientation) = compOrientation.numberOfArcs

\* the solver is at its leaf for the cube with a complete orientation that
\* differs from the orientation it complements
C24_Witness ==
    /\ AtSolverLeaf
    /\ numberOfVertices = 8
    /\ compOrientation.numberOfArcs = 12
    /\ compOrientation # orientation
    /\ Len(compFrames) >= 2

-----------------------------------------------------------------------------
(* The enumeration of the perfect matchings *)

\* F pairs every vertex with one of its neighbours
IsPerfectMatching(F, adj) ==
    \A v \in DOMAIN adj : F[v] \in adj[v] /\ F[F[v]] = v

\* the perfect matchings of the graph, each as the array of the partners
PerfectMatchingsOf(adj) ==
    {[v \in DOMAIN adj |-> CHOOSE w \in DOMAIN adj : <<v, w>> \in m \/ <<w, v>> \in m] :
        m \in {k \in SUBSET EdgeSet(adj) :
                  \A v \in DOMAIN adj :
                      Cardinality({e \in k : e[1] = v \/ e[2] = v}) = 1}}

\* F differs from G first at a vertex where its partner is the smaller one
MatchingBefore(F, G) ==
    \E v \in DOMAIN F :
        /\ F[v] < G[v]
        /\ \A w \in DOMAIN F : w < v => F[w] = G[w]

\* the base case is entered with the first matching of the set, or the
\* outermost call returns false when the set is empty
EntersFirstOf(matchings) ==
    IF matchings = {}
    THEN matchFrames' = <<>> /\ matchReturned' = 0
    ELSE /\ atPerfectMatching([frames |-> matchFrames', returned |-> matchReturned'])
         /\ heuristic'.F \in matchings
         /\ \A G \in matchings \ {heuristic'.F} : MatchingBefore(heuristic'.F, G)

\* C25: each time hasSufficientCondition reaches its base case F is a perfect
\* matching of the graph; the first base case holds the first perfect matching
\* and, when the tests of a matching fail, the next base case holds the next
\* perfect matching in the order of the search, the outermost call returning
\* false only after the last one, so that every perfect matching reaches the
\* base case exactly once; once a configuration test has succeeded F is not
\* written again and the calls return true without reaching a base case.
C25_MatchingEnumeration ==
    /\ [](pc = "matching"
             /\ atPerfectMatching([frames |-> matchFrames, returned |-> matchReturned])
          => IsPerfectMatching(heuristic.F, adjacencyList))
    /\ [][pc = "loaded" /\ pc' = "matching"
            => EntersFirstOf(PerfectMatchingsOf(adjacencyList))]_vars
    /\ [][(/\ pc \in {"matching", "cycles"}
           /\ atPerfectMatching([frames |-> matchFrames, returned |-> matchReturned])
           /\ pc' = "matching"
           /\ heuristic'.configuration = 0)
            => EntersFirstOf({G \in PerfectMatchingsOf(adjacencyList) :
                                 MatchingBefore(heuristic.F, G)})]_vars
    /\ [][(pc \in {"matching", "cycles", "verify"} /\ heuristic'.configuration # 0)
            => /\ heuristic'.F = heuristic.F
               /\ pc' = "matching" => matchFrames' = <<>> /\ matchReturned' = 1]_vars

\* the last of the six perfect matchings of the Petersen graph is at the base
\* case, no test having succeeded for the five before it
C25_Witness ==
    /\ pc = "matching"
    /\ atPerfectMatching([frames |-> matchFrames, returned |-> matchReturned])
    /\ numberOfVertices = 10
    /\ heuristic.configuration = 0
    /\ Cardinality(PerfectMatchingsOf(adjacencyList)) = 6
    /\ \A G \in PerfectMatchingsOf(adjacencyList) \ {heuristic.F} :
           MatchingBefore(G, heuristic.F)

-----------------------------------------------------------------------------
(* The matching M of the 2-factor left by a perfect matching *)

\* the vertices of the cycle through v of the 2-factor left by F
TwoFactorCycle(adj, F, v) ==
    Closure([w \in DOMAIN adj |-> adj[w] \ {F[w]}], {v})

\* the vertices of the cycle whose entry of M is not answered by the entry of
\* their partner
Unanswered(M, cycle) ==
    {v \in cycle : M[v] = -1 \/ M[M[v]] # v}

\* C26 as it is stated: when containsTwoOddCycles has returned true, every
\* M[v] is -1 or a neighbour of v on its cycle with M[M[v]] = v, no vertex of
\* an even cycle has M[v] = -1 and exactly one vertex of every odd cycle has.
C26_Original ==
    (pc = "cycles" /\ heuristic.u = NoValue) =>
        \A v \in DOMAIN adjacencyList :
            /\ \/ heuristic.M[v] = -1
               \/ /\ heuristic.M[v] \in adjacencyList[v] \ {heuristic.F[v]}
                  /\ heuristic.M[heuristic.M[v]] = v
            /\ Cardinality({w \in TwoFactorCycle(adjacencyList, heuristic.F, v) :
                               heuristic.M[w] = -1})
                 = Cardinality(TwoFactorCycle(adjacencyList, heuristic.F, v)) % 2

\* C26: when containsTwoOddCycles has returned true, and after every later
\* getOddCycleMatching and rematch for the same perfect matching, no entry of
\* M is -1: every M[v] is a neighbour of v on its cycle of the 2-factor; the
\* entries answer each other (M[M[v]] = v) on every even cycle and on every
\* odd cycle but for exactly one vertex, whose entry is left over and names a
\* vertex matched elsewhere.  When containsTwoOddCycles returns, that vertex
\* is the second vertex of the odd cycle in the order of the walk; after
\* getOddCycleMatching it is the vertex x1 (x2) the call was made for.
C26_MatchingOfTwoFactor ==
    pc \in {"cycles", "verify"} =>
        /\ \A v \in DOMAIN adjacencyList :
               /\ heuristic.M[v] \in adjacencyList[v] \ {heuristic.F[v]}
               /\ Cardinality(Unanswered(heuristic.M,
                                         TwoFactorCycle(adjacencyList, heuristic.F, v)))
                    = Cardinality(TwoFactorCycle(adjacencyList, heuristic.F, v)) % 2
        /\ heuristic.u = NoValue =>
               \A k \in 0 .. 1 :
                   Unanswered(heuristic.M, heuristic.oddCycles[k].cycleElements)
                       = {heuristic.oddCycles[k].cycle[1]}
        /\ (heuristic.u # NoValue /\ heuristic.edgesBetweenCycles # <<>>) =>
               /\ Unanswered(heuristic.M, heuristic.oddCycles[0].cycleElements)
                    = {heuristic.edgesBetweenCycles[0]}
               /\ Unanswered(heuristic.M, heuristic.oddCycles[1].cycleElements)
                    = {heuristic.edgesBetweenCycles[
                           Cardinality(DOMAIN heuristic.edgesBetweenCycles) - 1]}

\* a 2-factor with two odd cycles and an even cycle, after a test of the
\* second configuration
C26_Witness ==
    /\ pc = "cycles"
    /\ heuristic.u # NoValue
    /\ Cardinality(DOMAIN heuristic.edgesBetweenCycles) = 4
    /\ \E v \in DOMAIN adjacencyList :
           Cardinality(TwoFactorCycle(adjacencyList, heuristic.F, v)) % 2 = 0

-----------------------------------------------------------------------------
(* The walks that orient the circuits *)

\* the neighbours on the first odd cycle of its vertex x1, and on the second
\* odd cycle of its vertex x2
NeighboursOnOddCycle(k, x) ==
    {successorOn(heuristic.oddCycles[k],
                 findInArray(x, heuristic.oddCycles[k].cycle,
                             heuristic.oddCycles[k].numberOfElements)),
     predecessorOn(heuristic.oddCycles[k],
                   findInArray(x, heuristic.oddCycles[k].cycle,
                               heuristic.oddCycles[k].numberOfElements))}

\* the oriented vertices lie on closed walks that take F and M in turn
ClosedAlternatingWalks(co, F, M) ==
    \A v \in DOMAIN co :
        co[v] # -1 =>
            /\ co[v] \in {F[v], M[v]}
            /\ co[co[v]] = IF co[v] = F[v] THEN M[co[v]] ELSE F[co[v]]
            /\ \E w \in DOMAIN co : co[w] = v

\* C27: every walk of circuitOrientationIsConsistent that hasSufficientCondition
\* starts comes back to its starting vertex (no walk steps on -1 or runs on
\* without return, which the model records as a fault); after a test the
\* oriented vertices lie on closed walks alternating between F and M, the
\* vertex u of the first odd cycle and its partner F[u] are not oriented, the
\* neighbours of u on its cycle are, and when all the calls of the test were
\* made and returned true none of the suppressed vertices u, (nbrOfU, nbrOfV,)
\* v is oriented while the neighbours of v on the second odd cycle (and, for
\* the second configuration, the further neighbours w1 of nbrOfU and w2 of
\* nbrOfV) are.
C27_CircuitWalks ==
    /\ pc # "fault"
    /\ (pc \in {"cycles", "verify"} /\ heuristic.u # NoValue
           /\ heuristic.circuitOrientation # <<>>) =>
          /\ ClosedAlternatingWalks(heuristic.circuitOrientation, heuristic.F,
                                    heuristic.M)
          /\ heuristic.circuitOrientation[heuristic.u] = -1
          /\ heuristic.circuitOrientation[heuristic.F[heuristic.u]] = -1
          /\ \A w \in NeighboursOnOddCycle(0, heuristic.u) :
                 heuristic.circuitOrientation[w] # -1
          /\ heuristic.edgesBetweenCycles # <<>> =>
                /\ \A k \in DOMAIN heuristic.edgesBetweenCycles :
                       heuristic.circuitOrientation[heuristic.edgesBetweenCycles[k]] = -1
                /\ \A w \in NeighboursOnOddCycle(1,
                              heuristic.edgesBetweenCycles[
                                  Cardinality(DOMAIN heuristic.edgesBetweenCycles) - 1]) :
                       heuristic.circuitOrientation[w] # -1
                /\ Cardinality(DOMAIN heuristic.edgesBetweenCycles) = 4 =>
                       \A k \in 1 .. 2 :
                           \A w \in adjacencyList[heuristic.edgesBetweenCycles[k]]
                                      \ {heuristic.edgesBetweenCycles[j] : j \in 0 .. 3} :
                               heuristic.circuitOrientation[w] # -1

\* a test of the second configuration whose three calls returned true
C27_Witness ==
    /\ pc = "cycles"
    /\ heuristic.u # NoValue
    /\ heuristic.circuitOrientation # <<>>
    /\ Cardinality(DOMAIN heuristic.edgesBetweenCycles) = 4
    /\ \E w \in adjacencyList[heuristic.edgesBetweenCycles[1]]
                  \ {heuristic.edgesBetweenCycles[j] : j \in 0 .. 3} :
           heuristic.circuitOrientation[w] # -1

-----------------------------------------------------------------------------
(* The graph during and after the heuristic *)

\* C28: from the moment the graph is loaded, through every step of
\* hasSufficientCondition and after its return, true or false, the adjacency
\* list is the one loadGraph made from the line: the edges that
\* edgeIsStrong2Edge and suppressedEdgesAreDeletable take out are all put back,
\* also when their loops are left early, so that what runs next sees the
\* graph of the input.
C28_GraphUnchanged ==
    (counter > 0 /\ pc # "fault") =>
        adjacencyList
            = loadGraph(graphString, getNumberOfVertices(graphString)).adjacencyList

\* a test whose consistency checks passed and whose suppressed edges were
\* found not deletable: both loops were left by their break
C28_Witness ==
    /\ pc = "cycles"
    /\ heuristic.u # NoValue
    /\ heuristic.edgesBetweenCycles # <<>>
    /\ heuristic.configuration = 0
    /\ adjacencyList
           = loadGraph(graphString, getNumberOfVertices(graphString)).adjacencyList

-----------------------------------------------------------------------------
(* The answers of the shards of one graph *)

\* C30: for one graph and a modulo m, the run with -e and no -s answers 2
\* exactly when one of the runs with -s r/m, r = 0 .. m - 1, answers 2, with
\* the default solver and with -b (the run without -s is started after the
\* first shard that answered 2, or after the last shard when none did, so
\* that the answer of the run before it tells whether a shard answered 2).
C30_ShardedDecision ==
    (pc = "finished" /\ ~options.singleGraphFlag /\ previousRun # noRun) =>
        (frankNumber = 2) = (previousRun.frankNumber = 2)

====
